---------------------------- MODULE Spec2Model ----------------------------
(***************************************************************************)
(* State-machine model of scxrelay.c, the recovery-capable Steam           *)
(* Controller xpad relay: start-up (main, scxrelay_connect and the         *)
(* capability mirror), the relay loop (scxrelay_mainloop,                  *)
(* scxrelay_copy_event), the SIGINT handler and scxrelay_disconnect; and   *)
(* of the three plain relays minrelay.c, screlay.c and screlay_ipc.c,      *)
(* which share one blocking loop.                                          *)
(* The kernel side (the source event device, the uinput device, the        *)
(* descriptor table) is modelled by what the system calls of the program   *)
(* return and change.                                                      *)
(***************************************************************************)
EXTENDS Integers, Sequences, FiniteSets, TLC

(***************************************************************************)
(* Bounds of the model.                                                    *)
(***************************************************************************)
\* full-size records the source delivers in one run
MaxEvents == 2
\* successful opens of the source device in one run
MaxOpens == 2
\* highest descriptor number of the descriptor table
MaxFd == 5

(***************************************************************************)
(* Program and platform constants.                                         *)
(***************************************************************************)
EV_SYN == 0
EV_KEY == 1
EV_ABS == 3
EV_CNT == 32
ABS_CNT == 64
KEY_CNT == 768
NBV_EV == 1 + (EV_CNT \div 8)
NBV_ABS == 1 + (ABS_CNT \div 8)
NBV_KEY == 1 + (KEY_CNT \div 8)
BUS_VIRTUAL == 6
SCXRELAY_MODELREV == 1
SCXRELAY_VENDORID == 61525
SCXRELAY_PRODUCTID == 4604
SCXRELAY_MODELNAME == "Xpad Relay (SteamController)"
\* the code of the system button tested by the filter
SYSBUTTON == 10
\* sizeof (struct input_event)
EvSize == 24
\* sizeof (long), the unit in which the kernel copies a capability bitmap
LongBytes == 8
EXIT_SUCCESS == 0
EXIT_FAILURE == 1
\* exit_status of a process that has not exited
Running == 0 - 1
POLLIN == "POLLIN"
POLLERR == "POLLERR"
POLLHUP == "POLLHUP"
DefaultUinputPath == "/dev/uinput"
\* argv[1] and argv[2] of a command-line start
ArgEventPath == "/dev/input/event0"
ArgUinputPath == "/dev/uinput1"

VARIABLES
  \* struct scxrelay_s
  state, srcfd, uinputfd, have_ev, have_abs, have_key, uidev,
  event_path, uinput_path, filter_sysbutton,
  \* control: position of the process, locals of the running function
  pc, res, idx, revents, exit_status,
  \* process: argument count, SIGINT disposition, descriptor table
  argc, sigdisp, fdtab,
  \* the source event device, and the access its path allowed at the last
  \* attempt to open it ("unopened" while the process has opened no path)
  source, open_perm,
  \* the uinput device as the kernel sees it
  uinput,
  \* history: full-size records read, source opens, handler runs, the
  \* codes the capability queries returned
  readlog, src_opens, sig_handled, reported,
  \* the program of the repository that runs, and the state the three plain
  \* relays (minrelay.c, screlay.c, screlay_ipc.c) have on top: the halt
  \* flag and the scan option
  variant, halt, opt_scan

vars == << state, srcfd, uinputfd, have_ev, have_abs, have_key, uidev,
           event_path, uinput_path, filter_sysbutton,
           pc, res, idx, revents, exit_status,
           argc, sigdisp, fdtab, source, open_perm, uinput,
           readlog, src_opens, sig_handled, reported,
           variant, halt, opt_scan >>

instCaps == << have_ev, have_abs, have_key, uidev >>
instPaths == << event_path, uinput_path, filter_sysbutton >>
envVars == << argc, source, open_perm >>
histVars == << readlog, src_opens, sig_handled, reported >>
plainVars == << variant, halt, opt_scan >>

(***************************************************************************)
(* Bit vectors.                                                            *)
(***************************************************************************)
Min(a, b) == IF a < b THEN a ELSE b

Pow2(n) == CASE n = 0 -> 1 [] n = 1 -> 2 [] n = 2 -> 4 [] n = 3 -> 8
             [] n = 4 -> 16 [] n = 5 -> 32 [] n = 6 -> 64 [] OTHER -> 128

\* (bv)[nbyte] & (1 << nbit)
BitIsSet(bv, nbyte, nbit) == ((bv[nbyte] \div Pow2(nbit)) % 2) = 1

\* FOREACH_SET_BIT with the scan started after the first bit
ForeachSetBitFromOne(bv, bytecount) ==
  { nbyte * 8 + nbit : <<nbyte, nbit>> \in
      { p \in (0 .. (bytecount - 1)) \X (0 .. 7) :
          (p[1] > 0 \/ p[2] > 0) /\ BitIsSet(bv, p[1], p[2]) } }

\* FOREACH_SET_BIT (idxvar, bv, bytecount): the values of idxvar for which
\* the body runs; idxvar counts up with every bit tested, from 0.
ForeachSetBit(bv, bytecount) ==
  { nbyte * 8 + nbit : <<nbyte, nbit>> \in
      { p \in (0 .. (bytecount - 1)) \X (0 .. 7) : BitIsSet(bv, p[1], p[2]) } }

\* the first index at or after from for which the body of the loop runs,
\* or -1 when the loop is over
NextSetBit(bv, bytecount, from) ==
  LET rest == { i \in ForeachSetBit(bv, bytecount) : i >= from }
  IN IF rest = {} THEN 0 - 1
     ELSE CHOOSE i \in rest : \A j \in rest : i <= j

ZeroVector(n) == [b \in 0 .. (n - 1) |-> 0]

\* the byte at position b of the kernel bitmap of the codes in S
ByteOf(S, b) ==
    (IF (8 * b) \in S THEN 1 ELSE 0) + (IF (8 * b + 1) \in S THEN 2 ELSE 0)
  + (IF (8 * b + 2) \in S THEN 4 ELSE 0) + (IF (8 * b + 3) \in S THEN 8 ELSE 0)
  + (IF (8 * b + 4) \in S THEN 16 ELSE 0) + (IF (8 * b + 5) \in S THEN 32 ELSE 0)
  + (IF (8 * b + 6) \in S THEN 64 ELSE 0) + (IF (8 * b + 7) \in S THEN 128 ELSE 0)

\* ioctl (srcfd, EVIOCGBIT (type, len), buf): the number of bytes the kernel
\* copies for a bitmap of cnt bits into a buffer of len bytes
EviocgbitLen(cnt, len) == Min(len, ((cnt + 8 * LongBytes - 1) \div (8 * LongBytes)) * LongBytes)

\* buf after the kernel copied n bytes of the bitmap of S into it
EviocgbitCopy(buf, S, n) ==
  [b \in DOMAIN buf |-> IF b < n THEN ByteOf(S, b) ELSE buf[b]]

(***************************************************************************)
(* The descriptor and the devices.                                         *)
(***************************************************************************)
ZeroAxes == [a \in 0 .. (ABS_CNT - 1) |-> 0]

\* memset (&(inst->uidev), 0, sizeof (inst->uidev))
ZeroUidev ==
  [name |-> "", bustype |-> 0, vendor |-> 0, product |-> 0, version |-> 0,
   absmin |-> ZeroAxes, absmax |-> ZeroAxes, absfuzz |-> ZeroAxes,
   absflat |-> ZeroAxes]

\* calibrations a source device reports with EVIOCGABS
CalXpad == [a \in 0 .. (ABS_CNT - 1) |->
             [minimum |-> 0 - 32768, maximum |-> 32767, fuzz |-> 16, flat |-> 128]]
CalTrigger == [a \in 0 .. (ABS_CNT - 1) |->
             [minimum |-> 1, maximum |-> 255 + a, fuzz |-> 2, flat |-> 15]]

\* source devices of the start-up checks: every combination of the sample
\* codes, which hold the first and the last code of each class and the
\* first axis of byte NBV_EV of the axis bit vector
EvSample == {EV_SYN, EV_CNT - 1}
AbsSample == {0, 8 * NBV_EV, ABS_CNT - 1}
KeySample == {0, KEY_CNT - 1}
AllDevices ==
  [ev : SUBSET EvSample, abs : SUBSET AbsSample, key : SUBSET KeySample,
   absinfo : {CalXpad, CalTrigger}]

\* source devices of the relay checks
RelayDevices ==
  [ev : {{EV_SYN, EV_KEY, EV_ABS}}, abs : {{0, 8 * NBV_EV}},
   key : {{SYSBUTTON}}, absinfo : {CalXpad}]

\* the uinput device before any call on it
FreshUinput ==
  [evbit |-> {}, absbit |-> {}, keybit |-> {}, dev |-> ZeroUidev,
   nset |-> 0, ndesc |-> 0, ncreate |-> 0, ndestroy |-> 0, active |-> FALSE,
   nwrite |-> 0, events |-> << >>]

(***************************************************************************)
(* The descriptor table.                                                   *)
(***************************************************************************)
Closed == [kind |-> "closed", gen |-> 0, mode |-> ""]
Other == [kind |-> "other", gen |-> 0, mode |-> "rw"]
UinputFile == [kind |-> "uinput", gen |-> 0, mode |-> "rw"]
SrcFile(gen, mode) == [kind |-> "src", gen |-> gen, mode |-> mode]

\* open(2) returns the lowest descriptor that is not open, or -1
LowestFree(tab) ==
  LET free == { fd \in DOMAIN tab : tab[fd].kind = "closed" }
  IN IF free = {} THEN 0 - 1
     ELSE CHOOSE fd \in free : \A g \in free : fd <= g

IsOpen(tab, fd) == fd \in DOMAIN tab /\ tab[fd].kind # "closed"

\* a probe that finds no descriptor open
is_fd_open_never(probe_fd) == FALSE

\* is_fd_open: fcntl (probe_fd, F_GETFD) == 0; a descriptor inherited
\* across exec has no FD_CLOEXEC flag, so an open one answers 0
is_fd_open(probe_fd) == IsOpen(fdtab, probe_fd)

(***************************************************************************)
(* Initial states: the process at the entry of main.                       *)
(***************************************************************************)
InitWith(devices, starts) ==
  /\ state = "INIT"
  /\ srcfd = 0 /\ uinputfd = 0
  /\ have_ev = ZeroVector(NBV_EV)
  /\ have_abs = ZeroVector(NBV_ABS)
  /\ have_key = ZeroVector(NBV_KEY)
  /\ uidev = ZeroUidev
  /\ event_path = "" /\ uinput_path = ""
  /\ filter_sysbutton = 0
  /\ pc = "main" /\ res = 0 /\ idx = 0 /\ revents = {}
  /\ exit_status = Running
  /\ sigdisp = "default"
  /\ source \in devices
  /\ open_perm = "unopened"
  /\ uinput = FreshUinput
  /\ readlog = << >>
  /\ sig_handled = FALSE
  /\ reported = [ev |-> {}, abs |-> {}, key |-> {}]
  /\ variant = "scxrelay" /\ halt = 0 /\ opt_scan = 0
  /\ \E st \in starts :
       /\ argc = st[1]
       /\ fdtab = [fd \in 0 .. MaxFd |->
                     CASE fd < 3 -> Other
                       [] fd = 3 /\ st[2] -> SrcFile(1, "rw")
                       [] fd = 4 /\ st[3] -> UinputFile
                       [] OTHER -> Closed]
       /\ src_opens = IF st[2] THEN 1 ELSE 0

\* <<argc, descriptor 3 is open, descriptor 4 is open>>
AllStarts == (1 .. 3) \X BOOLEAN \X BOOLEAN
RelayStarts == { <<1, TRUE, TRUE>>, <<1, FALSE, FALSE>>, <<2, FALSE, FALSE>> }

(***************************************************************************)
(* die_on_negative and the ends of the process.                            *)
(***************************************************************************)
\* a process whose every end reports success
ExitSuccess(status) == pc' = "exited" /\ exit_status' = EXIT_SUCCESS

\* exit (status), or return status from main
Exit(status) == pc' = "exited" /\ exit_status' = status

\* a wrapper that lets the caller carry on whatever the call returned
die_on_negative_ignored(wrapped_call, next) ==
  pc' = next /\ exit_status' = exit_status

\* die_on_negative (wrapped_call): exit (EXIT_FAILURE) when the call
\* returned a negative value; otherwise the caller goes on at next
die_on_negative(wrapped_call, next) ==
  IF wrapped_call < 0
  THEN Exit(EXIT_FAILURE)
  ELSE pc' = next /\ exit_status' = exit_status

(***************************************************************************)
(* main, up to the call of scxrelay_main: scxrelay_init, then the paths   *)
(* and descriptors of the start.                                           *)
(***************************************************************************)
Main ==
  /\ pc = "main"
  /\ state' = "INIT"
  /\ have_ev' = ZeroVector(NBV_EV)
  /\ have_abs' = ZeroVector(NBV_ABS)
  /\ have_key' = ZeroVector(NBV_KEY)
  /\ uidev' = ZeroUidev
  /\ filter_sysbutton' = 0
  /\ IF argc < 2
     THEN /\ srcfd' = IF is_fd_open(3) THEN 3 ELSE 0 - 1
          /\ event_path' = IF is_fd_open(3) THEN "-" ELSE ""
          /\ uinputfd' = IF is_fd_open(4) THEN 4 ELSE 0 - 1
          /\ uinput_path' = IF is_fd_open(4) THEN "-" ELSE DefaultUinputPath
          /\ IF is_fd_open(3)
             THEN pc' = "connect_src" /\ exit_status' = exit_status
             ELSE Exit(EXIT_FAILURE)
     ELSE /\ srcfd' = 0 - 1
          /\ uinputfd' = 0 - 1
          /\ event_path' = ArgEventPath
          /\ uinput_path' = IF argc > 2 THEN ArgUinputPath ELSE DefaultUinputPath
          /\ pc' = "connect_src" /\ exit_status' = exit_status
  /\ UNCHANGED << res, idx, revents, sigdisp, fdtab, uinput >>
  /\ UNCHANGED << envVars, histVars >>

  /\ UNCHANGED plainVars
(***************************************************************************)
(* scxrelay_connect: the two handles.                                      *)
(***************************************************************************)
\* open (inst->event_path, O_RDWR), then O_RDONLY when that is refused
\* the access the path of the source device allows when it is opened: the
\* device may be plugged or not, and readable only
Perms == {"rw", "ro", "none"}

\* the descriptor of the open in scxrelay_connect, or -1
ConnectResult(perm) ==
  IF perm = "none" \/ src_opens >= MaxOpens THEN 0 - 1 ELSE LowestFree(fdtab)

ConnectOpenSource ==
  /\ pc = "connect_src"
  /\ IF srcfd < 0
     THEN \E perm \in Perms :
            LET fd == ConnectResult(perm)
            IN /\ srcfd' = fd
               /\ open_perm' = perm
               /\ IF fd < 0
                  THEN /\ Exit(EXIT_FAILURE)
                       /\ UNCHANGED << fdtab, src_opens >>
                  ELSE /\ fdtab' = [fdtab EXCEPT ![fd] = SrcFile(src_opens + 1, perm)]
                       /\ src_opens' = src_opens + 1
                       /\ pc' = "connect_uinput"
                       /\ exit_status' = exit_status
     ELSE /\ pc' = "connect_uinput"
          /\ UNCHANGED << srcfd, fdtab, src_opens, exit_status, open_perm >>
  /\ UNCHANGED << state, uinputfd, res, idx, revents, sigdisp, uinput,
                  readlog, sig_handled, reported, argc, source >>
  /\ UNCHANGED << instCaps, instPaths >>

  /\ UNCHANGED plainVars
\* open (inst->uinput_path, O_RDWR)
ConnectOpenUinput ==
  /\ pc = "connect_uinput"
  /\ IF uinputfd < 0
     THEN \E ok \in BOOLEAN :
            LET fd == IF ok THEN LowestFree(fdtab) ELSE 0 - 1
            IN /\ uinputfd' = fd
               /\ IF fd < 0
                  THEN Exit(EXIT_FAILURE) /\ fdtab' = fdtab
                  ELSE /\ fdtab' = [fdtab EXCEPT ![fd] = UinputFile]
                       /\ pc' = "query_ev"
                       /\ exit_status' = exit_status
     ELSE /\ pc' = "query_ev"
          /\ UNCHANGED << uinputfd, fdtab, exit_status >>
  /\ UNCHANGED << state, srcfd, res, idx, revents, sigdisp, uinput >>
  /\ UNCHANGED << instCaps, instPaths, envVars, histVars >>

  /\ UNCHANGED plainVars
(***************************************************************************)
(* scxrelay_register_features_by_code.                                     *)
(***************************************************************************)
\* res = ioctl (inst->srcfd, EVIOCGBIT (type, nbv), have): the query fails
\* (res < 0, the buffer untouched) or copies the bitmap of the codes
QueryResult(ok, cnt, nbv) == IF ok THEN EviocgbitLen(cnt, nbv) ELSE 0 - 1

QueryBuffer(ok, have, codes, cnt, nbv) ==
  IF ok THEN EviocgbitCopy(have, codes, EviocgbitLen(cnt, nbv)) ELSE have

QueryEv ==
  /\ pc = "query_ev"
  /\ \E ok \in BOOLEAN :
       /\ res' = QueryResult(ok, EV_CNT, NBV_EV)
       /\ have_ev' = QueryBuffer(ok, have_ev, source.ev, EV_CNT, NBV_EV)
       /\ reported' = [reported EXCEPT !.ev = IF ok THEN source.ev ELSE {}]
  /\ idx' = 0
  /\ pc' = "reg_ev"
  /\ UNCHANGED << state, srcfd, uinputfd, have_abs, have_key, uidev,
                  revents, exit_status, sigdisp, fdtab, uinput >>
  /\ UNCHANGED << instPaths, envVars, readlog, src_opens, sig_handled >>

  /\ UNCHANGED plainVars
\* a loop that stops one byte before the end of the answer
RegisterRangeShort(bytecount) == IF bytecount > 0 THEN bytecount - 1 ELSE 0

\* the range of the loop FOREACH_SET_BIT (idx, have, res) of a query
RegisterRange(bytecount) == IF bytecount > 0 THEN bytecount ELSE 0

\* a loop that goes on to the next bit when a registration was refused
RegisterStepCarryOn(have, field, next) ==
  LET n == NextSetBit(have, RegisterRange(res), idx)
  IN IF n < 0
     THEN /\ pc' = next
          /\ idx' = 0
          /\ UNCHANGED << uinput, exit_status >>
     ELSE \E ok \in BOOLEAN :
            /\ uinput' = [uinput EXCEPT ![field] = IF ok THEN @ \cup {n} ELSE @,
                                        !.nset = @ + 1]
            /\ idx' = n + 1
            /\ UNCHANGED << pc, exit_status >>

\* one pass of the body: die_on_negative (ioctl (inst->uinputfd, UI_SET_xBIT, idx))
RegisterStep(have, field, next) ==
  LET n == NextSetBit(have, RegisterRange(res), idx)
  IN IF n < 0
     THEN /\ pc' = next
          /\ idx' = 0
          /\ UNCHANGED << uinput, exit_status >>
     ELSE \E ok \in BOOLEAN :
            IF ok
            THEN /\ uinput' = [uinput EXCEPT ![field] = @ \cup {n}, !.nset = @ + 1]
                 /\ idx' = n + 1
                 /\ UNCHANGED << pc, exit_status >>
            ELSE /\ uinput' = [uinput EXCEPT !.nset = @ + 1]
                 /\ Exit(EXIT_FAILURE)
                 /\ idx' = idx

RegisterEv ==
  /\ pc = "reg_ev"
  /\ RegisterStep(have_ev, "evbit", "query_abs")
  /\ UNCHANGED << state, srcfd, uinputfd, res, revents, sigdisp, fdtab >>
  /\ UNCHANGED << instCaps, instPaths, envVars, histVars >>

  /\ UNCHANGED plainVars
QueryAbs ==
  /\ pc = "query_abs"
  /\ \E ok \in BOOLEAN :
       /\ res' = QueryResult(ok, ABS_CNT, NBV_ABS)
       /\ have_abs' = QueryBuffer(ok, have_abs, source.abs, ABS_CNT, NBV_ABS)
       /\ reported' = [reported EXCEPT !.abs = IF ok THEN source.abs ELSE {}]
  /\ idx' = 0
  /\ pc' = "reg_abs"
  /\ UNCHANGED << state, srcfd, uinputfd, have_ev, have_key, uidev,
                  revents, exit_status, sigdisp, fdtab, uinput >>
  /\ UNCHANGED << instPaths, envVars, readlog, src_opens, sig_handled >>

  /\ UNCHANGED plainVars
RegisterAbs ==
  /\ pc = "reg_abs"
  /\ RegisterStep(have_abs, "absbit", "query_key")
  /\ UNCHANGED << state, srcfd, uinputfd, res, revents, sigdisp, fdtab >>
  /\ UNCHANGED << instCaps, instPaths, envVars, histVars >>

  /\ UNCHANGED plainVars
QueryKey ==
  /\ pc = "query_key"
  /\ \E ok \in BOOLEAN :
       /\ res' = QueryResult(ok, KEY_CNT, NBV_KEY)
       /\ have_key' = QueryBuffer(ok, have_key, source.key, KEY_CNT, NBV_KEY)
       /\ reported' = [reported EXCEPT !.key = IF ok THEN source.key ELSE {}]
  /\ idx' = 0
  /\ pc' = "reg_key"
  /\ UNCHANGED << state, srcfd, uinputfd, have_ev, have_abs, uidev,
                  revents, exit_status, sigdisp, fdtab, uinput >>
  /\ UNCHANGED << instPaths, envVars, readlog, src_opens, sig_handled >>

  /\ UNCHANGED plainVars
RegisterKey ==
  /\ pc = "reg_key"
  /\ RegisterStep(have_key, "keybit", "prep_desc")
  /\ UNCHANGED << state, srcfd, uinputfd, res, revents, sigdisp, fdtab >>
  /\ UNCHANGED << instCaps, instPaths, envVars, histVars >>

  /\ UNCHANGED plainVars
(***************************************************************************)
(* scxrelay_connect: the descriptor and the activation.                    *)
(***************************************************************************)
\* the identity of the relay device
RelayUidev ==
  [ZeroUidev EXCEPT !.name = SCXRELAY_MODELNAME, !.bustype = BUS_VIRTUAL,
                    !.vendor = SCXRELAY_VENDORID, !.product = SCXRELAY_PRODUCTID,
                    !.version = SCXRELAY_MODELREV]

PrepareDescriptor ==
  /\ pc = "prep_desc"
  /\ uidev' = RelayUidev
  /\ idx' = 0
  /\ pc' = "copy_abs"
  /\ UNCHANGED << state, srcfd, uinputfd, have_ev, have_abs, have_key,
                  res, revents, exit_status, sigdisp, fdtab, uinput >>
  /\ UNCHANGED << instPaths, envVars, histVars >>

  /\ UNCHANGED plainVars
\* the number of bytes of have_abs the calibration loop walks
AbsinfoBytes == NBV_EV

\* a loop that carries on after a refused EVIOCGABS: the axis is passed
\* over with its entries as they were
WithAbsinfoSkipped(u, a, absinfo) == u

\* a copy that stores the calibration one axis further on
WithAbsinfoNext(u, a, absinfo) ==
  [u EXCEPT !.absmin[(a + 1) % ABS_CNT] = absinfo.minimum,
            !.absmax[(a + 1) % ABS_CNT] = absinfo.maximum,
            !.absfuzz[(a + 1) % ABS_CNT] = absinfo.fuzz,
            !.absflat[(a + 1) % ABS_CNT] = absinfo.flat]

\* uidev with the calibration of axis a copied from absinfo
WithAbsinfo(u, a, absinfo) ==
  [u EXCEPT !.absmin[a] = absinfo.minimum, !.absmax[a] = absinfo.maximum,
            !.absfuzz[a] = absinfo.fuzz, !.absflat[a] = absinfo.flat]

\* one pass of the body: die_on_negative (ioctl (inst->srcfd, EVIOCGABS (idx),
\* &absinfo)), then the four assignments
CopyAbsinfo ==
  /\ pc = "copy_abs"
  /\ LET n == NextSetBit(have_abs, AbsinfoBytes, idx)
     IN IF n < 0
        THEN /\ pc' = "write_desc"
             /\ idx' = 0
             /\ UNCHANGED << uidev, exit_status >>
        ELSE \E ok \in BOOLEAN :
               IF ok
               THEN /\ uidev' = WithAbsinfo(uidev, n, source.absinfo[n])
                    /\ idx' = n + 1
                    /\ UNCHANGED << pc, exit_status >>
               ELSE /\ Exit(EXIT_FAILURE)
                    /\ UNCHANGED << idx, uidev >>
  /\ UNCHANGED << state, srcfd, uinputfd, have_ev, have_abs, have_key,
                  res, revents, sigdisp, fdtab, uinput >>
  /\ UNCHANGED << instPaths, envVars, histVars >>

  /\ UNCHANGED plainVars
\* die_on_negative (write (inst->uinputfd, &(inst->uidev), sizeof (inst->uidev)))
WriteDescriptor ==
  /\ pc = "write_desc"
  /\ \E ok \in BOOLEAN :
       IF ok
       THEN /\ uinput' = [uinput EXCEPT !.dev = uidev, !.ndesc = @ + 1]
            /\ pc' = "create"
            /\ exit_status' = exit_status
       ELSE Exit(EXIT_FAILURE) /\ uinput' = uinput
  /\ UNCHANGED << state, srcfd, uinputfd, res, idx, revents, sigdisp, fdtab >>
  /\ UNCHANGED << instCaps, instPaths, envVars, histVars >>

  /\ UNCHANGED plainVars
\* die_on_negative (ioctl (inst->uinputfd, UI_DEV_CREATE))
CreateDevice ==
  /\ pc = "create"
  /\ \E ok \in BOOLEAN :
       IF ok
       THEN /\ uinput' = [uinput EXCEPT !.ncreate = @ + 1, !.active = TRUE]
            /\ pc' = "sigaction"
            /\ exit_status' = exit_status
       ELSE /\ uinput' = [uinput EXCEPT !.ncreate = @ + 1]
            /\ Exit(EXIT_FAILURE)
  /\ UNCHANGED << state, srcfd, uinputfd, res, idx, revents, sigdisp, fdtab >>
  /\ UNCHANGED << instCaps, instPaths, envVars, histVars >>

  /\ UNCHANGED plainVars
(***************************************************************************)
(* SIGINT with the default disposition ends the process.                   *)
(***************************************************************************)
Alive == pc \notin {"exited", "killed", "aborted"}

SigintDefault ==
  /\ Alive
  /\ sigdisp = "default"
  /\ pc' = "killed"
  /\ UNCHANGED << state, srcfd, uinputfd, res, idx, revents, exit_status,
                  sigdisp, fdtab, uinput >>
  /\ UNCHANGED << instCaps, instPaths, envVars, histVars >>

  /\ UNCHANGED plainVars
(***************************************************************************)
(* Start-up alone, for every sample device and every way of starting.      *)
(***************************************************************************)
InitConnect ==
  \/ InitWith(AllDevices, {<<2, FALSE, FALSE>>})
  \/ InitWith(RelayDevices, AllStarts)

NextConnect ==
  \/ Main \/ ConnectOpenSource \/ ConnectOpenUinput
  \/ QueryEv \/ RegisterEv \/ QueryAbs \/ RegisterAbs \/ QueryKey \/ RegisterKey
  \/ PrepareDescriptor \/ CopyAbsinfo \/ WriteDescriptor \/ CreateDevice
  \/ SigintDefault

SpecConnect == InitConnect /\ [][NextConnect]_vars

(***************************************************************************)
(* scxrelay_mainloop.                                                      *)
(***************************************************************************)
\* sigaction (SIGINT, &act, NULL) with sa_handler = on_sigint and
\* sa_flags = SA_NODEFER | SA_RESETHAND
InstallHandler ==
  /\ pc = "sigaction"
  /\ sigdisp' = "handler"
  /\ pc' = "set_steady"
  /\ UNCHANGED << state, srcfd, uinputfd, res, idx, revents, exit_status,
                  fdtab, uinput >>
  /\ UNCHANGED << instCaps, instPaths, envVars, histVars >>

  /\ UNCHANGED plainVars
\* inst->state = SCXSTATE_STEADY
SetSteady ==
  /\ pc = "set_steady"
  /\ state' = "STEADY"
  /\ pc' = "loop_test"
  /\ res' = 0 /\ idx' = 0
  /\ UNCHANGED << srcfd, uinputfd, revents, exit_status, sigdisp, fdtab, uinput >>
  /\ UNCHANGED << instCaps, instPaths, envVars, histVars >>

  /\ UNCHANGED plainVars
\* while (inst->state != SCXSTATE_HALT)
LoopTest ==
  /\ pc = "loop_test"
  /\ pc' = IF state # "HALT" THEN "switch" ELSE "disconnect"
  /\ UNCHANGED << state, srcfd, uinputfd, res, idx, revents, exit_status,
                  sigdisp, fdtab, uinput >>
  /\ UNCHANGED << instCaps, instPaths, envVars, histVars >>

  /\ UNCHANGED plainVars
\* a loop that polls the source in SCXSTATE_FAILED as well
SwitchTargetPollFailed(st) ==
  CASE st = "STEADY" -> "poll"
    [] st = "FAILED" -> "poll"
    [] OTHER -> "loop_test"

\* a recovery that mirrors the capabilities of the source again
SwitchTargetRegister(st) ==
  CASE st = "STEADY" -> "poll"
    [] st = "FAILED" -> "query_ev"
    [] OTHER -> "loop_test"

\* a recovery that runs scxrelay_connect again
SwitchTargetReconnect(st) ==
  CASE st = "STEADY" -> "poll"
    [] st = "FAILED" -> "connect_src"
    [] OTHER -> "loop_test"

\* switch (inst->state)
SwitchTarget(st) ==
  CASE st = "STEADY" -> "poll"
    [] st = "FAILED" -> "failed"
    [] OTHER -> "loop_test"

Switch ==
  /\ pc = "switch"
  /\ pc' = SwitchTarget(state)
  /\ UNCHANGED << state, srcfd, uinputfd, res, idx, revents, exit_status,
                  sigdisp, fdtab, uinput >>
  /\ UNCHANGED << instCaps, instPaths, envVars, histVars >>

  /\ UNCHANGED plainVars
\* what poll (fds, nfds, 100) returns: an error or an interruption, the
\* timeout, or the flags of the one descriptor
PollResults ==
  { [res |-> 0 - 1, revents |-> {}], [res |-> 0, revents |-> {}] }
  \cup { [res |-> 1, revents |-> f] : f \in (SUBSET {POLLIN, POLLERR, POLLHUP}) \ {{}} }

\* an error branch that sets the state without closing the handle
AfterPollNoClose(r, flags) ==
  CASE r > 0 /\ POLLIN \in flags -> "copy_event"
    [] r > 0 /\ POLLERR \in flags -> "set_failed"
    [] OTHER -> "loop_test"

\* where the body of case SCXSTATE_STEADY goes with the result of poll
AfterPoll(r, flags) ==
  CASE r > 0 /\ POLLIN \in flags -> "copy_event"
    [] r > 0 /\ POLLERR \in flags -> "close_src"
    [] OTHER -> "loop_test"

Poll ==
  /\ pc = "poll"
  /\ \E p \in PollResults :
       /\ pc' = AfterPoll(p.res, p.revents)
       /\ IF AfterPoll(p.res, p.revents) = "loop_test"
          THEN res' = 0 /\ revents' = {}
          ELSE res' = p.res /\ revents' = p.revents
  /\ UNCHANGED << state, srcfd, uinputfd, idx, exit_status, sigdisp, fdtab, uinput >>
  /\ UNCHANGED << instCaps, instPaths, envVars, histVars >>

  /\ UNCHANGED plainVars
(***************************************************************************)
(* scxrelay_copy_event.                                                    *)
(***************************************************************************)
\* the records the handle of generation gen delivers
Records(gen) ==
  [type : {EV_KEY, EV_ABS}, code : {SYSBUTTON, SYSBUTTON + 1}, value : {1},
   handle : {gen}]

\* a byte count between 0 and the record size
PartialRead == EvSize \div 2

\* what read (inst->srcfd, &ev, evsize) returns
ReadResults == {0 - 1, 0, PartialRead, EvSize}

\* a filter that is on whatever the field holds
FilteredAlways(ev) == ev.type = EV_KEY /\ ev.code = SYSBUTTON

\* a filter that tests the code alone
FilteredAnyType(ev) == filter_sysbutton # 0 /\ ev.code = SYSBUTTON

\* the test of the filter: the record is dropped
Filtered(ev) == filter_sysbutton # 0 /\ ev.type = EV_KEY /\ ev.code = SYSBUTTON

\* a copy that leaves the state alone after a partial read
StateAfterReadPartialKept(r, st) == IF r = EvSize \/ r > 0 THEN st ELSE "HALT"

\* the state scxrelay_copy_event leaves after a read that returned r
StateAfterRead(r, st) == IF r = EvSize THEN st ELSE "HALT"

\* a write that puts the record before the ones already delivered
WriteEventFirst(events, ev) == << ev >> \o events

\* the records the uinput device has received, after one more write
WriteEvent(events, ev) == Append(events, ev)

\* what write (inst->uinputfd, &ev, sizeof (ev)) returns
WriteResults == {0 - 1, EvSize}

\* where the loop goes when scxrelay_copy_event has returned
AfterCopy(flags) == IF POLLERR \in flags THEN "close_src" ELSE "loop_test"

CopyEvent ==
  /\ pc = "copy_event"
  /\ \E r \in ReadResults :
       /\ res' = r
       /\ state' = StateAfterRead(r, state)
       /\ IF r = EvSize
          THEN /\ IsOpen(fdtab, srcfd) /\ fdtab[srcfd].kind = "src"
               /\ Len(readlog) < MaxEvents
               /\ \E ev \in Records(fdtab[srcfd].gen) :
                    /\ readlog' = Append(readlog, ev)
                    /\ IF Filtered(ev)
                       THEN /\ pc' = AfterCopy(revents)
                            /\ UNCHANGED << uinput, exit_status >>
                       ELSE \E w \in WriteResults :
                              /\ uinput' = [uinput EXCEPT
                                              !.nwrite = @ + 1,
                                              !.events = IF w < 0 THEN @
                                                         ELSE WriteEvent(@, ev)]
                              /\ die_on_negative(w, AfterCopy(revents))
          ELSE /\ pc' = AfterCopy(revents)
               /\ UNCHANGED << readlog, uinput, exit_status >>
  /\ revents' = IF pc' = "loop_test" THEN {} ELSE revents
  /\ UNCHANGED << srcfd, uinputfd, idx, sigdisp, fdtab >>
  /\ UNCHANGED << instCaps, instPaths, envVars, src_opens, sig_handled, reported >>

  /\ UNCHANGED plainVars
(***************************************************************************)
(* scxrelay_mainloop: the error condition and the recovery.                *)
(***************************************************************************)
\* close (inst->srcfd)
CloseSource ==
  /\ pc = "close_src"
  /\ fdtab' = IF IsOpen(fdtab, srcfd) THEN [fdtab EXCEPT ![srcfd] = Closed] ELSE fdtab
  /\ pc' = "set_failed"
  /\ UNCHANGED << state, srcfd, uinputfd, res, idx, revents, exit_status,
                  sigdisp, uinput >>
  /\ UNCHANGED << instCaps, instPaths, envVars, histVars >>

  /\ UNCHANGED plainVars
\* inst->state = SCXSTATE_FAILED
SetFailed ==
  /\ pc = "set_failed"
  /\ state' = "FAILED"
  /\ pc' = "loop_test"
  /\ res' = 0 /\ revents' = {}
  /\ UNCHANGED << srcfd, uinputfd, idx, exit_status, sigdisp, fdtab, uinput >>
  /\ UNCHANGED << instCaps, instPaths, envVars, histVars >>

  /\ UNCHANGED plainVars
\* open (inst->event_path, O_RDWR) in the recovery: the descriptor, or -1
ReopenResult(path, perm) ==
  IF path = ArgEventPath /\ perm = "rw" /\ src_opens < MaxOpens
  THEN LowestFree(fdtab) ELSE 0 - 1

\* a recovery that installs the handle and leaves the state alone
StateAfterReopenKept(fd, st) == st

\* a recovery that gives up when the open fails
StateAfterReopenGiveUp(fd, st) == IF fd < 0 THEN "HALT" ELSE "STEADY"

\* the state after the attempt to reopen that returned fd
StateAfterReopen(fd, st) == IF fd < 0 THEN st ELSE "STEADY"

\* case SCXSTATE_FAILED
Failed ==
  /\ pc = "failed"
  /\ IF event_path # ""
     THEN \E perm \in Perms :
            LET fd == ReopenResult(event_path, perm)
            IN /\ srcfd' = fd
               /\ open_perm' = perm
               /\ state' = StateAfterReopen(fd, state)
               /\ IF fd < 0
                  THEN UNCHANGED << fdtab, src_opens >>
                  ELSE /\ fdtab' = [fdtab EXCEPT ![fd] = SrcFile(src_opens + 1, "rw")]
                       /\ src_opens' = src_opens + 1
     ELSE UNCHANGED << srcfd, state, fdtab, src_opens, open_perm >>
  /\ pc' = "loop_test"
  /\ UNCHANGED << uinputfd, res, idx, revents, exit_status, sigdisp, uinput,
                  readlog, sig_handled, reported, argc, source >>
  /\ UNCHANGED << instCaps, instPaths >>

  /\ UNCHANGED plainVars
(***************************************************************************)
(* scxrelay_disconnect and the return of main.                             *)
(***************************************************************************)
\* a main that reports the failure of the disconnect
DisconnectStatusChecked(ret) == IF ret < 0 THEN EXIT_FAILURE ELSE EXIT_SUCCESS

\* the status main returns when the disconnect has returned ret: the
\* callers drop the value
DisconnectStatus(ret) == EXIT_SUCCESS

\* what ioctl (fd, UI_DEV_DESTROY) can return: -1 on a descriptor that is
\* not an open uinput handle, 0 or -1 on one that is
DestroyResults(fd) ==
  IF IsOpen(fdtab, fd) /\ fdtab[fd] = UinputFile THEN {0, 0 - 1} ELSE {0 - 1}

Disconnect ==
  /\ pc = "disconnect"
  /\ \E ret \in DestroyResults(uinputfd) :
       /\ uinput' = [uinput EXCEPT !.ndestroy = @ + 1,
                                   !.active = IF ret = 0 THEN FALSE ELSE @]
       /\ res' = ret
       /\ Exit(DisconnectStatus(ret))
  /\ UNCHANGED << state, srcfd, uinputfd, idx, revents, sigdisp, fdtab >>
  /\ UNCHANGED << instCaps, instPaths, envVars, histVars >>

  /\ UNCHANGED plainVars
(***************************************************************************)
(* on_sigint, run by a SIGINT while the handler is installed; with         *)
(* SA_RESETHAND the disposition is the default again when it runs.         *)
(***************************************************************************)
\* a handler that returns without writing the state
HandlerStateKept(st) == st

\* inst->state = SCXSTATE_HALT
HandlerState(st) == "HALT"

OnSigint ==
  /\ Alive
  /\ variant = "scxrelay"
  /\ sigdisp = "handler"
  /\ state' = HandlerState(state)
  /\ sigdisp' = "default"
  /\ sig_handled' = TRUE
  /\ UNCHANGED << srcfd, uinputfd, pc, res, idx, revents, exit_status, fdtab,
                  uinput, readlog, src_opens, reported >>
  /\ UNCHANGED << instCaps, instPaths, envVars >>

  /\ UNCHANGED plainVars
(***************************************************************************)
(* The program.                                                            *)
(***************************************************************************)
Init == InitWith(RelayDevices, RelayStarts)

Relay ==
  \/ InstallHandler \/ SetSteady \/ LoopTest \/ Switch \/ Poll \/ CopyEvent
  \/ CloseSource \/ SetFailed \/ Failed \/ Disconnect

\* the steps of the process itself
Program ==
  \/ Main \/ ConnectOpenSource \/ ConnectOpenUinput
  \/ QueryEv \/ RegisterEv \/ QueryAbs \/ RegisterAbs \/ QueryKey \/ RegisterKey
  \/ PrepareDescriptor \/ CopyAbsinfo \/ WriteDescriptor \/ CreateDevice
  \/ Relay

Next == Program \/ OnSigint \/ SigintDefault

Spec == Init /\ [][Next]_vars

\* the process is scheduled: a step of the program that can be taken is
\* taken in the end
FairSpec == Init /\ [][Next]_vars /\ WF_vars(Program)

(***************************************************************************)
(* The relay loop alone, entered as scxrelay_main enters it after a        *)
(* command-line start whose scxrelay_connect succeeded, with               *)
(* filter_sysbutton drawn from both values: scxrelay_copy_event as a       *)
(* function of the field, which the program as built leaves 0.             *)
(***************************************************************************)
\* inst->uidev as scxrelay_connect leaves it for the device
ConnectedUidev(dev) ==
  LET copied == ForeachSetBit(EviocgbitCopy(ZeroVector(NBV_ABS), dev.abs,
                                             EviocgbitLen(ABS_CNT, NBV_ABS)),
                              AbsinfoBytes)
      pick(a, f) == IF a \in copied THEN dev.absinfo[a][f] ELSE 0
  IN [RelayUidev EXCEPT
        !.absmin = [a \in 0 .. (ABS_CNT - 1) |-> pick(a, "minimum")],
        !.absmax = [a \in 0 .. (ABS_CNT - 1) |-> pick(a, "maximum")],
        !.absfuzz = [a \in 0 .. (ABS_CNT - 1) |-> pick(a, "fuzz")],
        !.absflat = [a \in 0 .. (ABS_CNT - 1) |-> pick(a, "flat")]]

InitRelay ==
  /\ state = "INIT"
  /\ srcfd = 3 /\ uinputfd = 4
  /\ source \in RelayDevices
  /\ have_ev = EviocgbitCopy(ZeroVector(NBV_EV), source.ev, EviocgbitLen(EV_CNT, NBV_EV))
  /\ have_abs = EviocgbitCopy(ZeroVector(NBV_ABS), source.abs, EviocgbitLen(ABS_CNT, NBV_ABS))
  /\ have_key = EviocgbitCopy(ZeroVector(NBV_KEY), source.key, EviocgbitLen(KEY_CNT, NBV_KEY))
  /\ uidev = ConnectedUidev(source)
  /\ event_path = ArgEventPath /\ uinput_path = DefaultUinputPath
  /\ filter_sysbutton \in {0, 1}
  /\ pc = "sigaction"
  /\ res = EviocgbitLen(KEY_CNT, NBV_KEY)
  /\ idx = 0
  /\ revents = {}
  /\ exit_status = Running
  /\ argc = 2
  /\ sigdisp = "default"
  /\ fdtab = [fd \in 0 .. MaxFd |->
                CASE fd < 3 -> Other
                  [] fd = 3 -> SrcFile(1, "rw")
                  [] fd = 4 -> UinputFile
                  [] OTHER -> Closed]
  /\ open_perm = "rw"
  /\ uinput = [FreshUinput EXCEPT !.evbit = source.ev, !.absbit = source.abs,
                                  !.keybit = source.key,
                                  !.dev = ConnectedUidev(source),
                                  !.nset = Cardinality(source.ev)
                                           + Cardinality(source.abs)
                                           + Cardinality(source.key),
                                  !.ndesc = 1, !.ncreate = 1, !.active = TRUE]
  /\ readlog = << >>
  /\ src_opens = 1
  /\ sig_handled = FALSE
  /\ reported = [ev |-> source.ev, abs |-> source.abs, key |-> source.key]
  /\ variant = "scxrelay" /\ halt = 0 /\ opt_scan = 0

NextRelay == Relay \/ OnSigint \/ SigintDefault

SpecRelay == InitRelay /\ [][NextRelay]_vars

(***************************************************************************)
(* The plain relays minrelay.c, screlay.c and screlay_ipc.c: no recovery,  *)
(* one blocking read per iteration, the halt flag in place of the state.   *)
(* The three differ in how main gets the source handle and in the walk of  *)
(* the bit vectors; from the open of the uinput node on they run the same  *)
(* statements, modelled once and mapped to minrelay.c.                     *)
(***************************************************************************)
PlainVariants == {"minrelay", "screlay", "screlay_ipc"}
ScrVariants == {"screlay", "screlay_ipc"}

\* the variables no step of a plain relay changes
plainFrame == << state, filter_sysbutton, idx, revents, argc, source, variant >>

\* the process before the first statement of main: the static initial
\* values of the program (handles: -1 in minrelay.c, 0 in the zeroed
\* struct of screlay.c and screlay_ipc.c)
InitPlainFrom(v, entry, handle, argcs, devices) ==
  /\ variant = v /\ halt = 0 /\ opt_scan = 0
  /\ state = "INIT"
  /\ srcfd = handle /\ uinputfd = handle
  /\ have_ev = ZeroVector(NBV_EV)
  /\ have_abs = ZeroVector(NBV_ABS)
  /\ have_key = ZeroVector(NBV_KEY)
  /\ uidev = ZeroUidev
  /\ event_path = ""
  /\ uinput_path = IF v = "minrelay" THEN DefaultUinputPath ELSE ""
  /\ filter_sysbutton = 0
  /\ pc = entry /\ res = 0 /\ idx = 0 /\ revents = {}
  /\ exit_status = Running
  /\ argc \in argcs
  /\ sigdisp = "default"
  /\ fdtab = [fd \in 0 .. MaxFd |-> IF fd < 3 THEN Other ELSE Closed]
  /\ source \in devices
  /\ open_perm = "unopened"
  /\ uinput = FreshUinput
  /\ readlog = << >>
  /\ src_opens = 0
  /\ sig_handled = FALSE
  /\ reported = [ev |-> {}, abs |-> {}, key |-> {}]

\* the plain relays on the source device of the relay checks
InitPlainWith(v, entry, handle, argcs) ==
  InitPlainFrom(v, entry, handle, argcs, RelayDevices)

\* die_on_negative of the plain relays: exit (EXIT_FAILURE); in screlay.c
\* and screlay_ipc.c the function starts with assert (wrapped_call >= 0),
\* so a build without NDEBUG aborts instead
Die ==
  \/ Exit(EXIT_FAILURE)
  \/ /\ variant \in ScrVariants
     /\ pc' = "aborted"
     /\ exit_status' = exit_status

PlainDieOnNegative(wrapped_call, next) ==
  IF wrapped_call < 0
  THEN Die
  ELSE pc' = next /\ exit_status' = exit_status

(***************************************************************************)
(* minrelay.c: main and the open of the source.                            *)
(***************************************************************************)
MinMain ==
  /\ pc = "min_main"
  /\ IF argc < 2
     THEN /\ Exit(EXIT_FAILURE)
          /\ UNCHANGED << event_path, uinput_path >>
     ELSE /\ event_path' = ArgEventPath
          /\ uinput_path' = IF argc > 2 THEN ArgUinputPath ELSE uinput_path
          /\ pc' = "min_connect_src"
          /\ exit_status' = exit_status
  /\ UNCHANGED << srcfd, uinputfd, res, sigdisp, fdtab, open_perm, uinput,
                  halt, opt_scan >>
  /\ UNCHANGED << instCaps, histVars, plainFrame >>

\* open (path, O_RDONLY): the descriptor, or -1
OpenReadOnly(perm) ==
  IF perm = "none" \/ src_opens >= MaxOpens THEN 0 - 1 ELSE LowestFree(fdtab)

\* srcfd = open (event_path, O_RDONLY); a failure makes scxrelay_connect
\* return -1 and main return EXIT_FAILURE
MinConnectOpenSource ==
  /\ pc = "min_connect_src"
  /\ \E perm \in Perms :
       LET fd == OpenReadOnly(perm)
       IN /\ srcfd' = fd
          /\ open_perm' = perm
          /\ IF fd < 0
             THEN /\ Exit(EXIT_FAILURE)
                  /\ UNCHANGED << fdtab, src_opens >>
             ELSE /\ fdtab' = [fdtab EXCEPT ![fd] = SrcFile(src_opens + 1, "ro")]
                  /\ src_opens' = src_opens + 1
                  /\ pc' = "plain_connect_uinput"
                  /\ exit_status' = exit_status
  /\ UNCHANGED << uinputfd, event_path, uinput_path, res, sigdisp, uinput,
                  readlog, sig_handled, reported, halt, opt_scan >>
  /\ UNCHANGED << instCaps, plainFrame >>

(***************************************************************************)
(* screlay.c and screlay_ipc.c: main, screlay_scan, screlay_open.          *)
(***************************************************************************)
\* the path of the device a scan finds
ScanPath == "/dev/input/event1"

\* the command lines: --auto, --device PATH, and no option
ScrOptions ==
  { [scan |-> 1, device |-> ""], [scan |-> 0, device |-> ArgEventPath],
    [scan |-> 0, device |-> ""] }

\* screlay_init, argp_parse and the choice of the way to the source
ScrMain ==
  /\ pc = "scr_main"
  /\ srcfd' = 0 - 1 /\ uinputfd' = 0 - 1
  /\ uinput_path' = DefaultUinputPath
  /\ \E o \in ScrOptions :
       /\ opt_scan' = o.scan
       /\ event_path' = o.device
       /\ IF o.scan # 0
          THEN pc' = "scr_scan" /\ exit_status' = exit_status
          ELSE IF o.device # ""
               THEN pc' = "scr_open" /\ exit_status' = exit_status
               ELSE Exit(EXIT_FAILURE)
  /\ UNCHANGED << res, sigdisp, fdtab, open_perm, uinput, halt >>
  /\ UNCHANGED << instCaps, histVars, plainFrame >>

\* what screlay_scan ends with
ScanOutcomes == {"found", "none", "error"}

\* screlay_scan: the first event device with the target USB id becomes the
\* source; a directory without one (or no directory) leaves the handle -1;
\* an error of readdir_r exits
ScrScan ==
  /\ pc = "scr_scan"
  /\ \E out \in ScanOutcomes :
       CASE out = "found" ->
              LET fd == LowestFree(fdtab)
              IN /\ fd >= 0 /\ src_opens < MaxOpens
                 /\ srcfd' = fd
                 /\ event_path' = ScanPath
                 /\ open_perm' = "ro"
                 /\ fdtab' = [fdtab EXCEPT ![fd] = SrcFile(src_opens + 1, "ro")]
                 /\ src_opens' = src_opens + 1
                 /\ pc' = "scr_log" /\ exit_status' = exit_status
         [] out = "none" ->
              /\ pc' = "scr_log" /\ exit_status' = exit_status
              /\ UNCHANGED << srcfd, event_path, open_perm, fdtab, src_opens >>
         [] OTHER ->
              /\ Exit(EXIT_FAILURE)
              /\ UNCHANGED << srcfd, event_path, open_perm, fdtab, src_opens >>
  /\ UNCHANGED << uinputfd, uinput_path, res, sigdisp, uinput, readlog,
                  sig_handled, reported, halt, opt_scan >>
  /\ UNCHANGED << instCaps, plainFrame >>

\* inst->srcfd = screlay_open (inst->srcpath)
ScrOpen ==
  /\ pc = "scr_open"
  /\ \E perm \in Perms :
       LET fd == OpenReadOnly(perm)
       IN /\ srcfd' = fd
          /\ open_perm' = perm
          /\ IF fd < 0
             THEN UNCHANGED << fdtab, src_opens >>
             ELSE /\ fdtab' = [fdtab EXCEPT ![fd] = SrcFile(src_opens + 1, "ro")]
                  /\ src_opens' = src_opens + 1
  /\ pc' = "scr_log"
  /\ UNCHANGED << uinputfd, event_path, uinput_path, res, exit_status, sigdisp,
                  uinput, readlog, sig_handled, reported, halt, opt_scan >>
  /\ UNCHANGED << instCaps, plainFrame >>

\* where main goes after the log line: screlay_connect and the loop with a
\* source handle, straight to screlay_disconnect without one
AfterLog(fd) == IF fd >= 0 THEN "plain_connect_uinput" ELSE "plain_disconnect"

\* logmsg (1, "Using relay source %s ...", inst->srcpath, ...): in
\* screlay.c srcpath is a pointer that is still NULL after a scan without
\* a match, and printing it with %s is undefined: the line is printed or
\* the process is killed
ScrLogSource ==
  /\ pc = "scr_log"
  /\ \/ pc' = AfterLog(srcfd)
     \/ /\ variant = "screlay" /\ event_path = ""
        /\ pc' = "killed"
  /\ UNCHANGED << srcfd, uinputfd, event_path, uinput_path, res, exit_status,
                  sigdisp, fdtab, open_perm, uinput, halt, opt_scan >>
  /\ UNCHANGED << instCaps, histVars, plainFrame >>

(***************************************************************************)
(* The connect of the plain relays, from the open of the uinput node.      *)
(***************************************************************************)
\* open (uinput_path, O_WRONLY | O_NONBLOCK); a failure ends the process
\* with EXIT_FAILURE (return -1 to main in minrelay.c, exit in the others)
PlainConnectOpenUinput ==
  /\ pc = "plain_connect_uinput"
  /\ \E ok \in BOOLEAN :
       LET fd == IF ok THEN LowestFree(fdtab) ELSE 0 - 1
       IN /\ uinputfd' = fd
          /\ IF fd < 0
             THEN Exit(EXIT_FAILURE) /\ fdtab' = fdtab
             ELSE /\ fdtab' = [fdtab EXCEPT ![fd] = UinputFile]
                  /\ pc' = "plain_reg_ev"
                  /\ exit_status' = exit_status
  /\ UNCHANGED << srcfd, event_path, uinput_path, res, sigdisp, open_perm,
                  uinput, halt, opt_scan >>
  /\ UNCHANGED << instCaps, histVars, plainFrame >>

\* FOREACH_SET_BIT of minrelay.c: the values of idxvar for which the body
\* runs.  The assignment idxvar = nbyte*8+nbit is the last operand of the
\* test, so the body is skipped when the index is 0.
MinForeachSetBit(bv, bytecount) ==
  { nbyte * 8 + nbit : <<nbyte, nbit>> \in
      { p \in (0 .. (bytecount - 1)) \X (0 .. 7) :
          BitIsSet(bv, p[1], p[2]) /\ (p[1] * 8 + p[2]) # 0 } }

\* screlay_walk_bitvectoridx: the indices the callback is called with
screlay_walk_bitvectoridx(bitvector, vecbytes) ==
  { nbyte * 8 + nbit : <<nbyte, nbit>> \in
      { p \in (0 .. (vecbytes - 1)) \X (0 .. 7) :
          BitIsSet(bitvector, p[1], p[2]) } }

\* the walk of the program that runs
Walk(bv, bytecount) ==
  IF variant = "minrelay"
  THEN MinForeachSetBit(bv, bytecount)
  ELSE screlay_walk_bitvectoridx(bv, bytecount)

\* the size of the buffer of a capability query: the bit vector of the
\* class, but the one buffer of (KEY_CNT+1)/8 bytes in screlay.c
PlainQueryLen(nbv) == IF variant = "screlay" THEN (KEY_CNT + 1) \div 8 ELSE nbv

\* the result and the buffer of a capability query
PlainQuery(ok, codes, cnt, nbv) ==
  [res |-> QueryResult(ok, cnt, PlainQueryLen(nbv)),
   buf |-> QueryBuffer(ok, ZeroVector(PlainQueryLen(nbv)), codes, cnt,
                       PlainQueryLen(nbv))]

\* the codes the loop after a query registers, in index order, when the
\* call for the code stop is refused (none refused: stop = -1)
PlainRegistered(q, stop) ==
  LET todo == IF q.res > 0 THEN Walk(q.buf, q.res) ELSE {}
  IN IF stop < 0 THEN todo ELSE { i \in todo : i < stop }

\* if (res > 0) the walk with die_on_negative (ioctl (fd, UI_SET_xBIT, idx))
PlainRegisterClass(q, field, stop, next) ==
  /\ stop < 0 \/ (q.res > 0 /\ stop \in Walk(q.buf, q.res))
  /\ res' = q.res
  /\ uinput' = [uinput EXCEPT
                  ![field] = PlainRegistered(q, stop),
                  !.nset = @ + Cardinality(PlainRegistered(q, stop))
                             + (IF stop < 0 THEN 0 ELSE 1)]
  /\ PlainDieOnNegative(IF stop < 0 THEN 0 ELSE 0 - 1, next)

\* the bit vector the program keeps for a class: the answer of the query,
\* but in screlay.c the flags have_axis[idx], have_key[idx] the callbacks
\* set after each registration
PlainHave(have, q, stop, nbv) ==
  IF variant = "screlay"
  THEN EviocgbitCopy(ZeroVector(nbv), PlainRegistered(q, stop), nbv)
  ELSE q.buf

PlainRegisterEv ==
  /\ pc = "plain_reg_ev"
  /\ \E ok \in BOOLEAN, stop \in source.ev \cup {0 - 1} :
       LET q == PlainQuery(ok, source.ev, EV_CNT, NBV_EV)
       IN /\ PlainRegisterClass(q, "evbit", stop, "plain_reg_abs")
          /\ have_ev' = IF variant = "screlay" THEN have_ev ELSE q.buf
          /\ reported' = [reported EXCEPT !.ev = IF ok THEN source.ev ELSE {}]
  /\ UNCHANGED << srcfd, uinputfd, have_abs, have_key, uidev, event_path,
                  uinput_path, sigdisp, fdtab, open_perm, readlog, src_opens,
                  sig_handled, halt, opt_scan >>
  /\ UNCHANGED plainFrame

PlainRegisterAbs ==
  /\ pc = "plain_reg_abs"
  /\ \E ok \in BOOLEAN, stop \in source.abs \cup {0 - 1} :
       LET q == PlainQuery(ok, source.abs, ABS_CNT, NBV_ABS)
       IN /\ PlainRegisterClass(q, "absbit", stop, "plain_reg_key")
          /\ have_abs' = PlainHave(have_abs, q, stop, NBV_ABS)
          /\ reported' = [reported EXCEPT !.abs = IF ok THEN source.abs ELSE {}]
  /\ UNCHANGED << srcfd, uinputfd, have_ev, have_key, uidev, event_path,
                  uinput_path, sigdisp, fdtab, open_perm, readlog, src_opens,
                  sig_handled, halt, opt_scan >>
  /\ UNCHANGED plainFrame

PlainRegisterKey ==
  /\ pc = "plain_reg_key"
  /\ \E ok \in BOOLEAN, stop \in source.key \cup {0 - 1} :
       LET q == PlainQuery(ok, source.key, KEY_CNT, NBV_KEY)
       IN /\ PlainRegisterClass(q, "keybit", stop, "plain_desc")
          /\ have_key' = PlainHave(have_key, q, stop, NBV_KEY)
          /\ reported' = [reported EXCEPT !.key = IF ok THEN source.key ELSE {}]
  /\ UNCHANGED << srcfd, uinputfd, have_ev, have_abs, uidev, event_path,
                  uinput_path, sigdisp, fdtab, open_perm, readlog, src_opens,
                  sig_handled, halt, opt_scan >>
  /\ UNCHANGED plainFrame

\* the name of the relay device of each program
PlainModelName ==
  CASE variant = "minrelay" -> "Xpad MiniRelay (SteamController)"
    [] variant = "screlay" -> "XInput Relay (SteamController)"
    [] OTHER -> "Xpad Relay (SteamController)"

\* the descriptor after the memset and the identity fields
PlainUidev ==
  [ZeroUidev EXCEPT !.name = PlainModelName, !.bustype = BUS_VIRTUAL,
                    !.vendor = SCXRELAY_VENDORID, !.product = SCXRELAY_PRODUCTID,
                    !.version = SCXRELAY_MODELREV]

\* the axes whose calibration the program asks for: minrelay.c walks
\* NBV_EV bytes of have_abs with its FOREACH_SET_BIT, screlay.c tests
\* have_axis[codeidx] for every codeidx below ABS_CNT, screlay_ipc.c walks
\* the whole of have_abs
PlainAxes ==
  CASE variant = "minrelay" -> MinForeachSetBit(have_abs, NBV_EV)
    [] variant = "screlay" ->
         { a \in 0 .. (ABS_CNT - 1) : BitIsSet(have_abs, a \div 8, a % 8) }
    [] OTHER -> screlay_walk_bitvectoridx(have_abs, NBV_ABS)

\* u with the calibration cal copied for the axes
Calibrated(u, axes, cal) ==
  [u EXCEPT
     !.absmin = [a \in 0 .. (ABS_CNT - 1) |->
                   IF a \in axes THEN cal[a].minimum ELSE @[a]],
     !.absmax = [a \in 0 .. (ABS_CNT - 1) |->
                   IF a \in axes THEN cal[a].maximum ELSE @[a]],
     !.absfuzz = [a \in 0 .. (ABS_CNT - 1) |->
                   IF a \in axes THEN cal[a].fuzz ELSE @[a]],
     !.absflat = [a \in 0 .. (ABS_CNT - 1) |->
                   IF a \in axes THEN cal[a].flat ELSE @[a]]]

\* the descriptor: memset, the identity, then the calibration of the axes.
\* minrelay.c wraps each EVIOCGABS in die_on_negative; screlay.c and
\* screlay_ipc.c do not test it, and after a failed call they copy what
\* the local absinfo happens to hold.
PlainDescriptor ==
  /\ pc = "plain_desc"
  /\ IF variant = "minrelay"
     THEN \E stop \in PlainAxes \cup {0 - 1} :
            /\ uidev' = Calibrated(PlainUidev,
                                   { a \in PlainAxes : stop < 0 \/ a < stop },
                                   source.absinfo)
            /\ PlainDieOnNegative(IF stop < 0 THEN 0 ELSE 0 - 1, "plain_write_desc")
     ELSE \E cal \in {source.absinfo, CalTrigger} :
            /\ uidev' = Calibrated(PlainUidev, PlainAxes, cal)
            /\ pc' = "plain_write_desc"
            /\ exit_status' = exit_status
  /\ UNCHANGED << srcfd, uinputfd, have_ev, have_abs, have_key, event_path,
                  uinput_path, res, sigdisp, fdtab, open_perm, uinput, halt,
                  opt_scan >>
  /\ UNCHANGED << histVars, plainFrame >>

\* die_on_negative (write (uinputfd, &(uidev), sizeof (uidev)))
PlainWriteDescriptor ==
  /\ pc = "plain_write_desc"
  /\ \E w \in {0 - 1, 0} :
       /\ uinput' = IF w < 0 THEN uinput
                    ELSE [uinput EXCEPT !.dev = uidev, !.ndesc = @ + 1]
       /\ PlainDieOnNegative(w, "plain_create")
  /\ UNCHANGED << srcfd, uinputfd, event_path, uinput_path, res, sigdisp,
                  fdtab, open_perm, halt, opt_scan >>
  /\ UNCHANGED << instCaps, histVars, plainFrame >>

\* die_on_negative (ioctl (uinputfd, UI_DEV_CREATE))
PlainCreateDevice ==
  /\ pc = "plain_create"
  /\ \E r \in {0 - 1, 0} :
       /\ uinput' = [uinput EXCEPT !.ncreate = @ + 1,
                                   !.active = IF r < 0 THEN @ ELSE TRUE]
       /\ PlainDieOnNegative(r, "plain_sigaction")
  /\ UNCHANGED << srcfd, uinputfd, event_path, uinput_path, res, sigdisp,
                  fdtab, open_perm, halt, opt_scan >>
  /\ UNCHANGED << instCaps, histVars, plainFrame >>

(***************************************************************************)
(* The loop of the plain relays.                                           *)
(***************************************************************************)
\* sigaction (SIGINT, &act, NULL)
PlainInstallHandler ==
  /\ pc = "plain_sigaction"
  /\ sigdisp' = "handler"
  /\ pc' = "plain_clear_halt"
  /\ UNCHANGED << srcfd, uinputfd, event_path, uinput_path, res, exit_status,
                  fdtab, open_perm, uinput, halt, opt_scan >>
  /\ UNCHANGED << instCaps, histVars, plainFrame >>

\* halt = 0 (res, last set by the connect, is dead from here on)
PlainClearHalt ==
  /\ pc = "plain_clear_halt"
  /\ halt' = 0
  /\ res' = 0
  /\ pc' = "plain_loop_test"
  /\ UNCHANGED << srcfd, uinputfd, event_path, uinput_path, exit_status,
                  sigdisp, fdtab, open_perm, uinput, opt_scan >>
  /\ UNCHANGED << instCaps, histVars, plainFrame >>

\* while (! halt) (res, set by the read of the last iteration, is dead here)
PlainLoopTest ==
  /\ pc = "plain_loop_test"
  /\ pc' = IF halt = 0 THEN "plain_read" ELSE "plain_disconnect"
  /\ res' = 0
  /\ UNCHANGED << srcfd, uinputfd, event_path, uinput_path, exit_status,
                  sigdisp, fdtab, open_perm, uinput, halt, opt_scan >>
  /\ UNCHANGED << instCaps, histVars, plainFrame >>

\* the process enters read (srcfd, &ev, evsize) and waits there
PlainReadEnter ==
  /\ pc = "plain_read"
  /\ pc' = "plain_blocked"
  /\ UNCHANGED << srcfd, uinputfd, event_path, uinput_path, res, exit_status,
                  sigdisp, fdtab, open_perm, uinput, halt, opt_scan >>
  /\ UNCHANGED << instCaps, histVars, plainFrame >>

\* the records the source of a plain relay delivers
PlainRecords(gen) ==
  [type : {EV_KEY, EV_ABS}, code : {SYSBUTTON}, value : {1}, handle : {gen}]

\* the flag after a read that returned r
HaltAfterRead(r, h) == IF r = EvSize THEN h ELSE 1

\* the read returns, and the rest of the iteration: a full record is
\* written to the uinput handle, the result of the write dropped; any
\* other result of the read sets halt
PlainCopy ==
  /\ pc = "plain_blocked"
  /\ \E r \in ReadResults :
       /\ res' = r
       /\ halt' = HaltAfterRead(r, halt)
       /\ IF r = EvSize
          THEN /\ IsOpen(fdtab, srcfd) /\ fdtab[srcfd].kind = "src"
               /\ Len(readlog) < MaxEvents
               /\ \E ev \in PlainRecords(fdtab[srcfd].gen), w \in WriteResults :
                    /\ readlog' = Append(readlog, ev)
                    /\ uinput' = [uinput EXCEPT
                                    !.nwrite = @ + 1,
                                    !.events = IF w < 0 THEN @
                                               ELSE WriteEvent(@, ev)]
          ELSE UNCHANGED << readlog, uinput >>
  /\ pc' = "plain_loop_test"
  /\ UNCHANGED << srcfd, uinputfd, event_path, uinput_path, exit_status,
                  sigdisp, fdtab, open_perm, src_opens, sig_handled, reported,
                  opt_scan >>
  /\ UNCHANGED << instCaps, plainFrame >>

\* on_sigint of the plain relays: halt = 1.  The handler is installed
\* without SA_RESTART, so a read the process waits in returns -1 (EINTR),
\* and the branch res < 0 sets halt again.
PlainOnSigint ==
  /\ Alive
  /\ variant \in PlainVariants
  /\ sigdisp = "handler"
  /\ halt' = 1
  /\ sigdisp' = "default"
  /\ sig_handled' = TRUE
  /\ IF pc = "plain_blocked"
     THEN pc' = "plain_loop_test" /\ res' = 0 - 1
     ELSE UNCHANGED << pc, res >>
  /\ UNCHANGED << srcfd, uinputfd, event_path, uinput_path, exit_status,
                  fdtab, open_perm, uinput, readlog, src_opens, reported,
                  opt_scan >>
  /\ UNCHANGED << instCaps, plainFrame >>

\* ret = ioctl (uinputfd, UI_DEV_DESTROY); return ret
PlainDisconnect ==
  /\ pc = "plain_disconnect"
  /\ \E ret \in DestroyResults(uinputfd) :
       /\ uinput' = [uinput EXCEPT !.ndestroy = @ + 1,
                                   !.active = IF ret = 0 THEN FALSE ELSE @]
       /\ res' = ret
  /\ pc' = "plain_return"
  /\ UNCHANGED << srcfd, uinputfd, event_path, uinput_path, exit_status,
                  sigdisp, fdtab, open_perm, halt, opt_scan >>
  /\ UNCHANGED << instCaps, histVars, plainFrame >>

\* the end of main after the disconnect: screlay_destroy closes the uinput
\* handle in screlay.c and screlay_ipc.c; then return
PlainReturn ==
  /\ pc = "plain_return"
  /\ fdtab' = IF variant \in ScrVariants /\ IsOpen(fdtab, uinputfd)
              THEN [fdtab EXCEPT ![uinputfd] = Closed] ELSE fdtab
  /\ Exit(DisconnectStatus(res))
  /\ UNCHANGED << srcfd, uinputfd, event_path, uinput_path, res, sigdisp,
                  open_perm, uinput, halt, opt_scan >>
  /\ UNCHANGED << instCaps, histVars, plainFrame >>

(***************************************************************************)
(* The four programs side by side: scxrelay.c from the entry of its loop,  *)
(* the plain relays from main.                                             *)
(***************************************************************************)
InitMin == InitPlainWith("minrelay", "min_main", 0 - 1, 1 .. 3)

InitScr == \E v \in ScrVariants : InitPlainWith(v, "scr_main", 0, {1})

InitFamily == InitRelay \/ InitMin \/ InitScr

Plain ==
  \/ MinMain \/ MinConnectOpenSource
  \/ ScrMain \/ ScrScan \/ ScrOpen \/ ScrLogSource
  \/ PlainConnectOpenUinput
  \/ PlainRegisterEv \/ PlainRegisterAbs \/ PlainRegisterKey
  \/ PlainDescriptor \/ PlainWriteDescriptor \/ PlainCreateDevice
  \/ PlainInstallHandler \/ PlainClearHalt \/ PlainLoopTest
  \/ PlainReadEnter \/ PlainCopy \/ PlainDisconnect \/ PlainReturn

NextFamily == NextRelay \/ Plain \/ PlainOnSigint

SpecFamily == InitFamily /\ [][NextFamily]_vars

(***************************************************************************)
(* The start-up of scxrelay.c and of minrelay.c side by side, up to        *)
(* UI_DEV_CREATE.                                                          *)
(***************************************************************************)
\* a source device with an axis that minrelay.c asks the calibration of:
\* its walk skips index 0 and stops after NBV_EV bytes
StartupDevices ==
  [ev : {{EV_SYN, EV_KEY, EV_ABS}}, abs : {{0, 1, 8 * NBV_EV}},
   key : {{SYSBUTTON}}, absinfo : {CalXpad, CalTrigger}]

InitStartup ==
  \/ InitConnect
  \/ InitPlainFrom("minrelay", "min_main", 0 - 1, 1 .. 3, StartupDevices)

NextStartup ==
  \/ NextConnect
  \/ MinMain \/ MinConnectOpenSource \/ PlainConnectOpenUinput
  \/ PlainRegisterEv \/ PlainRegisterAbs \/ PlainRegisterKey
  \/ PlainDescriptor \/ PlainWriteDescriptor \/ PlainCreateDevice

SpecStartup == InitStartup /\ [][NextStartup]_vars

\* the steps a plain relay takes by being scheduled: every one but the
\* return of the blocking read, which waits for the source or for a signal
PlainSteps ==
  \/ MinMain \/ MinConnectOpenSource
  \/ ScrMain \/ ScrScan \/ ScrOpen \/ ScrLogSource
  \/ PlainConnectOpenUinput
  \/ PlainRegisterEv \/ PlainRegisterAbs \/ PlainRegisterKey
  \/ PlainDescriptor \/ PlainWriteDescriptor \/ PlainCreateDevice
  \/ PlainInstallHandler \/ PlainClearHalt \/ PlainLoopTest
  \/ PlainReadEnter \/ PlainDisconnect \/ PlainReturn

\* the processes are scheduled; what the source delivers and when is not
\* promised
FairFamily == InitFamily /\ [][NextFamily]_vars /\ WF_vars(PlainSteps)

(***************************************************************************)
(* Properties.                                                             *)
(***************************************************************************)
\* the positions of the process inside scxrelay_mainloop, from the loop
\* test to the statement that ends an iteration
InLoop ==
  pc \in {"loop_test", "switch", "poll", "copy_event", "close_src",
          "set_failed", "failed"}

\* C1: when scxrelay_connect issues UI_DEV_CREATE, the codes registered on
\* the uinput handle are, class by class, exactly the codes the source
\* reported: every reported code, code 0 included, and no other.
C1_RegisteredEqualsReported ==
  (pc = "create" \/ uinput.ncreate > 0) =>
    /\ uinput.evbit = reported.ev
    /\ uinput.absbit = reported.abs
    /\ uinput.keybit = reported.key

C1_Witness ==
  /\ pc = "create"
  /\ reported.ev = {EV_SYN}
  /\ reported.abs = {0, ABS_CNT - 1}
  /\ reported.key = {0, KEY_CNT - 1}
  /\ uinput.keybit = {0, KEY_CNT - 1}

\* C2: for every axis code the source reported (0 .. ABS_CNT - 1), the
\* descriptor written to uinput before UI_DEV_CREATE holds the minimum,
\* maximum, fuzz and flat the source returned for that axis.
C2_CalibrationPreserved ==
  (pc = "create" \/ uinput.ncreate > 0) =>
    \A a \in reported.abs :
      /\ uinput.dev.absmin[a] = source.absinfo[a].minimum
      /\ uinput.dev.absmax[a] = source.absinfo[a].maximum
      /\ uinput.dev.absfuzz[a] = source.absinfo[a].fuzz
      /\ uinput.dev.absflat[a] = source.absinfo[a].flat

\* the records of a log that the filter lets through
Surviving(log) ==
  SelectSeq(log, LAMBDA ev :
                   ~(filter_sysbutton # 0 /\ ev.type = EV_KEY /\ ev.code = SYSBUTTON))

\* C3: after any sequence of loop iterations the records written to the
\* uinput handle are the full-size records read so far without the
\* filtered ones: same order, same contents, none twice, none skipped.
C3_RelayedInOrder ==
  (InLoop \/ pc = "disconnect" \/ exit_status = EXIT_SUCCESS) =>
    uinput.events = Surviving(readlog)

C3_Witness ==
  /\ pc = "loop_test"
  /\ Len(readlog) = 2
  /\ readlog[1] # readlog[2]
  /\ uinput.events = readlog

\* C4: with the filter enabled a full-size record that was read is dropped
\* without a write exactly when its type is EV_KEY and its code 10; every
\* other record is written as it was read; with the filter disabled every
\* full-size record is written.
C4_FilterDropsSysbutton ==
  [][ (pc = "copy_event" /\ Len(readlog') > Len(readlog)) =>
        LET ev == readlog'[Len(readlog')]
        IN IF filter_sysbutton # 0 /\ ev.type = EV_KEY /\ ev.code = SYSBUTTON
           THEN uinput' = uinput /\ pc' # "exited"
           ELSE /\ uinput'.nwrite = uinput.nwrite + 1
                /\ pc' # "exited" => uinput'.events = Append(uinput.events, ev) ]_vars

C4_Witness ==
  /\ filter_sysbutton # 0
  /\ Len(readlog) = 2
  /\ readlog[1].type = EV_KEY /\ readlog[1].code = SYSBUTTON
  /\ readlog[2].type = EV_ABS /\ readlog[2].code = SYSBUTTON
  /\ uinput.events = << readlog[2] >>
  /\ uinput.nwrite = 1

\* C5: a SIGINT delivered to the installed handler at any moment makes the
\* loop exit and UI_DEV_DESTROY be issued in the end, when the process is
\* scheduled fairly. (A process ended by die_on_negative or by a later
\* SIGINT with the default disposition is set apart: the formula is about
\* the loop that keeps running.)
C5_SigintEndsRelay ==
  sig_handled ~> (uinput.ndestroy > 0 \/ pc = "killed" \/ exit_status = EXIT_FAILURE)

\* C6: HALT is terminal: once inst->state is HALT no later step assigns it
\* another value.
C6_HaltTerminal == [][ state = "HALT" => state' = "HALT" ]_vars

\* C7: in FAILED with a non-empty path, an attempt that opens the path
\* installs the new handle as the source handle and sets the state to
\* STEADY without any call on the uinput handle; the records read later
\* come from the newest handle and go to the same uinput handle.
C7_RecoveryResumes ==
  [][ /\ (pc = "failed" /\ event_path # "" /\ src_opens' > src_opens) =>
           /\ state' = "STEADY"
           /\ IsOpen(fdtab', srcfd')
           /\ fdtab'[srcfd'] = SrcFile(src_opens', "rw")
           /\ ~IsOpen(fdtab, srcfd')
           /\ uinput' = uinput
           /\ uinputfd' = uinputfd
      /\ (InLoop /\ Len(readlog') > Len(readlog)) =>
           /\ readlog'[Len(readlog')].handle = src_opens
           /\ fdtab[uinputfd] = UinputFile /\ uinputfd' = uinputfd
           /\ pc' # "exited" => uinput'.events = Append(uinput.events, readlog'[Len(readlog')])
    ]_vars

C7_Witness ==
  /\ state = "STEADY"
  /\ src_opens = 2
  /\ Len(uinput.events) = 2
  /\ uinput.events[1].handle = 1
  /\ uinput.events[2].handle = 2

\* C8: UI_DEV_CREATE is issued at most once in a run, and from that call
\* to the exit of the relay loop neither UI_DEV_CREATE nor UI_DEV_DESTROY
\* is issued, whatever the transitions between STEADY and FAILED.
C8_OneActivation ==
  /\ uinput.ncreate <= 1
  /\ (InLoop \/ pc \in {"sigaction", "set_steady", "disconnect"}) =>
       uinput.ncreate = 1 /\ uinput.ndestroy = 0

C8_Witness ==
  /\ pc = "poll"
  /\ src_opens = 2
  /\ uinput.ncreate = 1 /\ uinput.ndestroy = 0 /\ uinput.active

\* C9: on POLLERR in STEADY the source handle is closed before the state
\* becomes FAILED, and while the state is FAILED there is no read from the
\* source and no write to the virtual device.
C9_FailedClosesFirst ==
  [][ /\ (state # "FAILED" /\ state' = "FAILED") =>
           ~IsOpen(fdtab, srcfd) /\ POLLERR \in revents
      /\ state = "FAILED" =>
           /\ pc \notin {"poll", "copy_event"}
           /\ readlog' = readlog
           /\ uinput'.nwrite = uinput.nwrite /\ uinput'.events = uinput.events
    ]_vars

C9_Witness ==
  /\ state = "FAILED" /\ pc = "failed"
  /\ ~IsOpen(fdtab, srcfd)
  /\ Len(readlog) = 1 /\ uinput.nwrite = 1

\* C10: a zero-length read from the source in STEADY does not set the
\* state to HALT (it leads to FAILED, where the loop retries).
C10_ZeroReadNotHalt ==
  [][ (pc = "copy_event" /\ res' = 0 /\ state # "HALT") => state' # "HALT" ]_vars

\* C11: when the source was supplied as descriptor 3 with no path argument,
\* a pass through case FAILED attempts no open: the process still has
\* opened no path after it and the source handle is the one it was.
C11_PreopenedOnlyIdles ==
  [][ (pc = "failed" /\ pc' = "loop_test" /\ argc < 2) =>
        open_perm' = "unopened" /\ srcfd' = srcfd ]_vars

\* the positions of the process in main and scxrelay_connect, where a
\* failure ends the process
InStartup ==
  pc \in {"main", "connect_src", "connect_uinput", "query_ev", "reg_ev",
          "query_abs", "reg_abs", "query_key", "reg_key", "prep_desc",
          "copy_abs", "write_desc", "create"}

\* C12: the process exits with status 0 exactly when scxrelay_connect
\* succeeded (both handles, the descriptor written, the device created) and
\* scxrelay_mainloop returned with the state HALT; an end of the process in
\* main or in scxrelay_connect (no descriptor 3 and no path, an open, a
\* registration, the descriptor write or the create call failed) has a
\* non-zero status.
C12_ExitStatus ==
  /\ [] (exit_status = EXIT_SUCCESS =>
           /\ state = "HALT"
           /\ IsOpen(fdtab, uinputfd) /\ fdtab[uinputfd] = UinputFile
           /\ src_opens >= 1
           /\ uinput.ndesc = 1 /\ uinput.ncreate = 1 /\ uinput.ndestroy = 1
           /\ uinput.nwrite = Len(uinput.events))
  /\ [][ (pc # "exited" /\ pc' = "exited") =>
           /\ exit_status' \in {EXIT_SUCCESS, EXIT_FAILURE}
           /\ InStartup => exit_status' = EXIT_FAILURE
           /\ exit_status' = EXIT_SUCCESS <=>
                (pc = "disconnect" /\ state = "HALT" /\ uinput.active) ]_vars

C12_Witness ==
  /\ pc = "exited" /\ exit_status = EXIT_SUCCESS
  /\ sig_handled
  /\ Len(uinput.events) = 2
  /\ uinput.ndestroy = 1

\* the number of codes registered on the uinput handle
Registered == Cardinality(uinput.evbit) + Cardinality(uinput.absbit)
                + Cardinality(uinput.keybit)

\* C14: in scxrelay_connect every UI_SET_* call comes before the descriptor
\* write and the descriptor write before UI_DEV_CREATE; a failed
\* registration, descriptor write or create call ends the process with the
\* failure status and the device not created; an active device holds every
\* registration that was asked for; no call is issued a second time.
C14_OrderedAllOrNothing ==
  /\ [] (/\ uinput.ndesc <= 1 /\ uinput.ncreate <= 1
         /\ uinput.ncreate > 0 => uinput.ndesc = 1
         /\ uinput.active => uinput.nset = Registered
         /\ uinput.nset \in {Registered, Registered + 1}
         /\ uinput.nset # Registered =>
              pc = "exited" /\ exit_status = EXIT_FAILURE /\ ~uinput.active
         /\ (pc = "exited" /\ uinput.ncreate = 0) =>
              exit_status = EXIT_FAILURE /\ ~uinput.active)
  /\ [][ /\ uinput'.nset # uinput.nset =>
              /\ uinput.ndesc = 0 /\ uinput.ncreate = 0
              /\ uinput'.nset = uinput.nset + 1
         /\ uinput'.ndesc # uinput.ndesc => uinput.ncreate = 0
         /\ (InStartup /\ pc \notin {"main", "connect_src", "connect_uinput"}
               /\ pc' = "exited") =>
              exit_status' = EXIT_FAILURE /\ ~uinput'.active ]_vars

C14_Witness ==
  /\ pc = "exited" /\ exit_status = EXIT_FAILURE
  /\ uinput.nset = 3 /\ Registered = 2
  /\ uinput.ndesc = 0 /\ uinput.ncreate = 0 /\ ~uinput.active

\* C15: every end of the process after UI_DEV_CREATE succeeded comes after
\* a UI_DEV_DESTROY call on the uinput handle.
C15_DestroyBeforeExit ==
  (pc = "exited" /\ uinput.active) => uinput.ndestroy > 0

\* C18: in scxrelay_copy_event a read that returns another byte count than
\* the record size causes no write to the uinput handle and no second read:
\* the function returns after it; a partial read sets the state to HALT.
C18_ShortReadNoWrite ==
  [][ (pc = "copy_event" /\ pc' # "copy_event" /\ pc' # "killed"
         /\ res' # EvSize) =>
        /\ uinput' = uinput
        /\ readlog' = readlog
        /\ pc' \in {"loop_test", "close_src"}
        /\ (res' > 0 /\ res' < EvSize) => state' = "HALT" ]_vars

C18_Witness ==
  /\ pc = "loop_test" /\ res = PartialRead /\ state = "HALT"
  /\ ~sig_handled
  /\ Len(readlog) = 1 /\ uinput.nwrite = 1

\* C19: a failed write of an event to the uinput handle ends the relay: the
\* process has exited with the failure status, and the failed write is the
\* last call on the uinput handle and its record the last one read.
C19_WriteFailureHalts ==
  uinput.nwrite # Len(uinput.events) =>
    /\ pc = "exited" /\ exit_status = EXIT_FAILURE
    /\ uinput.nwrite = Len(uinput.events) + 1
    /\ uinput.ndestroy = 0
    /\ Len(Surviving(readlog)) = uinput.nwrite

C19_Witness ==
  /\ pc = "exited" /\ exit_status = EXIT_FAILURE
  /\ uinput.nwrite = 2 /\ Len(uinput.events) = 1
  /\ Len(readlog) = 2

\* the codes whose bit is set in a bit vector
BitsOf(bv) ==
  { i \in 0 .. (8 * Cardinality(DOMAIN bv) - 1) :
      (bv[i \div 8] \div Pow2(i % 8)) % 2 = 1 }

\* the positions of scxrelay_connect from the return of the first
\* capability query to UI_DEV_CREATE
AfterFirstQuery ==
  pc \in {"reg_ev", "query_abs", "reg_abs", "query_key", "reg_key",
          "prep_desc", "copy_abs", "write_desc", "create"}

\* C20 as stated: in every state of the start-up between the first
\* capability query and UI_DEV_CREATE, a bit is set in have_ev, have_abs or
\* have_key if and only if the registration of its code has succeeded.
C20_SetIffRegistered ==
  AfterFirstQuery =>
    /\ BitsOf(have_ev) = uinput.evbit
    /\ BitsOf(have_abs) = uinput.absbit
    /\ BitsOf(have_key) = uinput.keybit

\* C20, amended: between the first capability query and UI_DEV_CREATE the
\* registered codes are among the set bits; while the loop of a class runs
\* they are the set bits the loop has passed, and once the loop of a class
\* is over (so at UI_DEV_CREATE) they are exactly the set bits.
C20_RegisteredFollowsScan ==
  AfterFirstQuery =>
    /\ uinput.evbit \subseteq BitsOf(have_ev)
    /\ uinput.absbit \subseteq BitsOf(have_abs)
    /\ uinput.keybit \subseteq BitsOf(have_key)
    /\ pc = "reg_ev" => uinput.evbit = { i \in BitsOf(have_ev) : i < idx }
    /\ pc = "reg_abs" => uinput.absbit = { i \in BitsOf(have_abs) : i < idx }
    /\ pc = "reg_key" => uinput.keybit = { i \in BitsOf(have_key) : i < idx }
    /\ pc # "reg_ev" => uinput.evbit = BitsOf(have_ev)
    /\ pc \notin {"reg_ev", "query_abs", "reg_abs"} =>
         uinput.absbit = BitsOf(have_abs)
    /\ pc \notin {"reg_ev", "query_abs", "reg_abs", "query_key", "reg_key"} =>
         uinput.keybit = BitsOf(have_key)

C20_Witness ==
  /\ pc = "reg_key" /\ idx = 1
  /\ BitsOf(have_key) = {0, KEY_CNT - 1}
  /\ uinput.keybit = {0}

\* C13: in screlay.c and screlay_ipc.c a process that ends without having
\* got the source handle (the open of the explicit path failed, or the scan
\* found no device) does not report success.
C13_NoSourceIsFailure ==
  (variant \in ScrVariants /\ pc = "exited" /\ srcfd < 0) =>
    exit_status # EXIT_SUCCESS

\* C16: in every program the disconnect is best effort: a UI_DEV_DESTROY
\* on a handle that is not an open uinput handle, and one that fails,
\* return a negative value; the process goes on to its return, and the
\* status it returns is the one it returns after a disconnect that worked.
C16_DisconnectBestEffort ==
  /\ [] ((pc = "exited" /\ uinput.ndestroy > 0) =>
           /\ exit_status = EXIT_SUCCESS
           /\ uinput.ndestroy = 1
           /\ uinput.active => res < 0)
  /\ [][ uinput'.ndestroy # uinput.ndestroy =>
           /\ pc' \in {"exited", "plain_return"}
           /\ pc' = "exited" => exit_status' = EXIT_SUCCESS
           /\ res' \in {0, 0 - 1}
           /\ ~(IsOpen(fdtab, uinputfd) /\ fdtab[uinputfd] = UinputFile) =>
                res' < 0
           /\ res' < 0 => uinput'.active = uinput.active
           /\ res' = 0 => ~uinput'.active ]_vars

C16_Witness ==
  /\ variant = "screlay_ipc"
  /\ pc = "exited" /\ exit_status = EXIT_SUCCESS
  /\ srcfd < 0 /\ uinputfd < 0
  /\ uinput.ndestroy = 1 /\ uinput.ncreate = 0
  /\ res < 0

\* C17: in minrelay.c, when UI_DEV_CREATE is issued, every code the source
\* reported, from index 0 (EV_SYN, ABS_X, key code 0) up, is registered on
\* the uinput handle, and the descriptor holds the calibration of every
\* reported axis, axis 0 included.
C17_MinrelayMirrorsFromZero ==
  (variant = "minrelay" /\ (pc = "plain_create" \/ uinput.ncreate > 0)) =>
    /\ uinput.evbit = reported.ev
    /\ uinput.absbit = reported.abs
    /\ uinput.keybit = reported.key
    /\ \A a \in reported.abs :
         /\ uinput.dev.absmin[a] = source.absinfo[a].minimum
         /\ uinput.dev.absmax[a] = source.absinfo[a].maximum
         /\ uinput.dev.absfuzz[a] = source.absinfo[a].fuzz
         /\ uinput.dev.absflat[a] = source.absinfo[a].flat

\* C21: a step of on_sigint writes SCXSTATE_HALT to the state, from whatever
\* state it interrupts, and nothing else of the instance or of the process:
\* the two handles and what they refer to, the capability vectors, the
\* descriptor, the paths, the position of the interrupted code and its
\* locals are as they were.
C21_HandlerWritesStateOnly ==
  [][ (sig_handled' /\ ~sig_handled) =>
        /\ state' = "HALT"
        /\ UNCHANGED << srcfd, uinputfd, fdtab, uinput, pc, res, idx, revents,
                        exit_status, readlog, src_opens >>
        /\ UNCHANGED << instCaps, instPaths >> ]_vars

C21_Witness ==
  /\ sig_handled /\ state = "HALT"
  /\ pc = "failed"
  /\ srcfd = 3 /\ ~IsOpen(fdtab, srcfd)
  /\ uinput.active

\* C22: while the state is SCXSTATE_FAILED the only changes of the state
\* are to SCXSTATE_STEADY, made by case SCXSTATE_FAILED with an open that
\* returned a handle, and to SCXSTATE_HALT, made by the signal handler; an
\* attempt whose open fails leaves the state as it is, and the process
\* neither leaves the loop nor exits.
C22_FailedUntilReopenOrSignal ==
  [][ state = "FAILED" =>
        /\ state' \in {"FAILED", "STEADY", "HALT"}
        /\ state' = "STEADY" =>
             /\ pc = "failed"
             /\ srcfd' >= 0 /\ IsOpen(fdtab', srcfd')
             /\ src_opens' = src_opens + 1
        /\ state' = "HALT" => (sig_handled' /\ ~sig_handled)
        /\ (pc = "failed" /\ pc' = "loop_test" /\ srcfd' < 0) => state' = "FAILED"
        /\ pc' \notin {"disconnect", "exited", "aborted"} ]_vars

C22_Witness ==
  /\ state = "FAILED"
  /\ pc = "loop_test"
  /\ srcfd = 0 - 1 /\ open_perm = "none"
  /\ ~sig_handled

\* C23: in minrelay.c, once SIGINT has been handled while the main loop
\* runs (halt is 1 and the process is at the loop test, between the test
\* and the read, or in the read), the process leaves the loop, whether or
\* not the source delivers anything more.
C23_SigintEndsLoop ==
  (/\ variant = "minrelay"
   /\ sig_handled /\ halt = 1
   /\ pc \in {"plain_loop_test", "plain_read", "plain_blocked"})
    ~> (pc \in {"plain_disconnect", "plain_return", "exited", "killed"})

\* C24: in minrelay.c, screlay.c and screlay_ipc.c the records the uinput
\* device has received are the full-size records read from the source, in
\* order and none missing, in every state, a failed write included.
C24_PlainDeliversAllRead ==
  variant \in PlainVariants => uinput.events = readlog

\* C25: when scxrelay_connect opened the source read-only, after the
\* refusal of read-write, and the handle is lost, the first attempt of the
\* recovery that finds the path openable read-only as before installs a
\* handle and makes the state SCXSTATE_STEADY.
C25_ReadOnlySourceRecovers ==
  [][ (/\ pc = "failed" /\ pc' = "loop_test"
       /\ argc >= 2 /\ src_opens = 1 /\ srcfd >= 0
       /\ open_perm = "ro" /\ open_perm' = "ro") =>
        (state' = "STEADY" /\ srcfd' >= 0) ]_vars

\* C26: an axis code whose bit is not set in inst->have_abs, the copy of
\* the axis bit vector of the source, is never registered with
\* UI_SET_ABSBIT, and its four calibration entries are 0 in inst->uidev
\* and in the descriptor written to the uinput handle.
C26_UnsetAxesStayZero ==
  \A a \in 0 .. (ABS_CNT - 1) :
    (a \notin source.abs \/ a \notin BitsOf(have_abs)) =>
      /\ a \notin uinput.absbit
      /\ uinput.dev.absmin[a] = 0 /\ uinput.dev.absmax[a] = 0
      /\ uinput.dev.absfuzz[a] = 0 /\ uinput.dev.absflat[a] = 0
      /\ uidev.absmin[a] = 0 /\ uidev.absmax[a] = 0
      /\ uidev.absfuzz[a] = 0 /\ uidev.absflat[a] = 0

C26_Witness ==
  /\ pc = "create"
  /\ source.abs = {0} /\ uinput.absbit = {0}
  /\ uinput.ndesc = 1
  /\ uinput.dev.absmax[0] # 0
  /\ uinput.dev.absmax[8 * NBV_EV] = 0

\* C27: once UI_DEV_CREATE has been issued, no step (the copy of an event,
\* the close and the reopen of the source, the signal handler, the
\* disconnect) changes have_ev, have_abs, have_key or uidev, and none
\* issues a UI_SET_* registration or writes a descriptor.
C27_FrozenAfterCreate ==
  [][ uinput.ncreate > 0 =>
        /\ UNCHANGED << have_ev, have_abs, have_key, uidev >>
        /\ uinput'.nset = uinput.nset
        /\ uinput'.ndesc = uinput.ndesc
        /\ uinput'.evbit = uinput.evbit
        /\ uinput'.absbit = uinput.absbit
        /\ uinput'.keybit = uinput.keybit
        /\ uinput'.dev = uinput.dev ]_vars

C27_Witness ==
  /\ uinput.ncreate = 1 /\ uinput.ndesc = 1
  /\ pc = "exited"
  /\ Len(readlog) > 0
  /\ src_opens = 2
  /\ sig_handled
  /\ uinput.ndestroy = 1

\* C28: a start without path arguments takes descriptor 3, when it is open,
\* as the source handle and opens no source path; it takes descriptor 4,
\* when it is open, as the uinput handle, and otherwise opens the default
\* uinput path.  A start with a path argument takes neither descriptor:
\* both handles are descriptors that were not open before, obtained by
\* opening the paths of the command line (the default path for uinput
\* when only the source is named).
C28_StartupHandles ==
  [][ /\ (pc = "main" /\ pc' # "killed" /\ argc < 2 /\ IsOpen(fdtab, 3)) =>
           /\ pc' = "connect_src"
           /\ srcfd' = 3
           /\ uinputfd' = IF IsOpen(fdtab, 4) THEN 4 ELSE 0 - 1
           /\ ~IsOpen(fdtab, 4) => uinput_path' = DefaultUinputPath
      /\ (pc = "main" /\ pc' # "killed" /\ argc >= 2) =>
           /\ srcfd' < 0 /\ uinputfd' < 0
           /\ event_path' = ArgEventPath
           /\ uinput_path' = IF argc > 2 THEN ArgUinputPath ELSE DefaultUinputPath
      /\ (pc = "connect_src" /\ argc < 2) =>
           /\ srcfd = 3
           /\ UNCHANGED << srcfd, fdtab, src_opens, open_perm >>
      /\ (pc = "connect_src" /\ pc' = "connect_uinput" /\ argc >= 2) =>
           /\ ~IsOpen(fdtab, srcfd')
           /\ fdtab'[srcfd'].kind = "src"
           /\ src_opens' = src_opens + 1
      /\ (pc = "connect_uinput" /\ pc' = "query_ev") =>
           IF argc < 2 /\ uinputfd = 4
           THEN uinputfd' = 4 /\ fdtab' = fdtab
           ELSE /\ uinputfd < 0
                /\ uinput_path = IF argc > 2 THEN ArgUinputPath
                                 ELSE DefaultUinputPath
                /\ ~IsOpen(fdtab, uinputfd')
                /\ fdtab'[uinputfd'] = UinputFile ]_vars

C28_Witness ==
  /\ argc = 1
  /\ pc = "query_ev"
  /\ srcfd = 3 /\ open_perm = "unopened" /\ src_opens = 1
  /\ uinputfd = 4 /\ uinput_path = DefaultUinputPath
  /\ fdtab[4] = UinputFile

\* C29: inst->filter_sysbutton is 0 in every state of the program, so a
\* write to the uinput handle is issued for every full-size record read,
\* the EV_KEY record of code 10 included: the records the device has
\* received are the records read, but for the last one when its write
\* failed and ended the process.
C29_FilterOffAllWritten ==
  /\ filter_sysbutton = 0
  /\ uinput.nwrite = Len(readlog)
  /\ \/ uinput.events = readlog
     \/ /\ pc = "exited" /\ exit_status = EXIT_FAILURE
        /\ readlog # << >>
        /\ uinput.events = SubSeq(readlog, 1, Len(readlog) - 1)

C29_Witness ==
  /\ Len(readlog) = 1
  /\ readlog[1].type = EV_KEY /\ readlog[1].code = SYSBUTTON
  /\ uinput.events = readlog
  /\ state = "STEADY" /\ pc = "loop_test"

\* C30: whenever the loop is about to poll, read or close the source,
\* inst->srcfd is an open handle of the source, and so it is whenever an
\* iteration starts in SCXSTATE_STEADY; the state becomes SCXSTATE_STEADY
\* only at the entry of the loop, with the handle of the connect, or in
\* case SCXSTATE_FAILED with a handle the open has just returned.  The
\* signal handler runs between any two of these steps.
C30_SteadyHandleOpen ==
  /\ [](/\ pc \in {"poll", "copy_event", "close_src"} =>
             (IsOpen(fdtab, srcfd) /\ fdtab[srcfd].kind = "src")
        /\ (state = "STEADY" /\ pc \in {"loop_test", "switch"}) =>
             (IsOpen(fdtab, srcfd) /\ fdtab[srcfd].kind = "src"))
  /\ [][ (state' = "STEADY" /\ state # "STEADY") =>
           /\ pc \in {"set_steady", "failed"}
           /\ IsOpen(fdtab', srcfd') /\ fdtab'[srcfd'].kind = "src"
           /\ pc = "failed" =>
                (~IsOpen(fdtab, srcfd') /\ fdtab'[srcfd'].gen = src_opens + 1) ]_vars

C30_Witness ==
  /\ pc = "poll" /\ state = "STEADY"
  /\ sig_handled
  /\ src_opens = 2
  /\ IsOpen(fdtab, srcfd) /\ fdtab[srcfd].gen = 2

\* C31: in scxrelay.c and minrelay.c a capability query that returns no
\* data does not end the process: nothing of its class is registered and
\* the start-up goes on to the next query, and so to the descriptor and
\* UI_DEV_CREATE.  A refused EVIOCGABS ends the process with
\* EXIT_FAILURE before any descriptor is written or device created: the
\* calibration loop goes on only with the axis copied into the descriptor.
C31_QueryFailures ==
  /\ [](/\ reported.ev = {} => uinput.evbit = {}
        /\ reported.abs = {} => uinput.absbit = {}
        /\ reported.key = {} => uinput.keybit = {})
  /\ [][ /\ (pc \in {"query_ev", "query_abs", "query_key"} /\ pc' # pc
                /\ pc' # "killed" /\ res' <= 0) =>
              /\ pc' = (CASE pc = "query_ev" -> "reg_ev"
                          [] pc = "query_abs" -> "reg_abs"
                          [] OTHER -> "reg_key")
              /\ exit_status' = Running
              /\ UNCHANGED << have_ev, have_abs, have_key, uinput >>
         /\ (pc \in {"reg_ev", "reg_abs", "reg_key"} /\ pc' # "killed"
                /\ res <= 0) =>
              /\ pc' = (CASE pc = "reg_ev" -> "query_abs"
                          [] pc = "reg_abs" -> "query_key"
                          [] OTHER -> "prep_desc")
              /\ exit_status' = Running
              /\ uinput' = uinput
         /\ (pc \in {"plain_reg_ev", "plain_reg_abs", "plain_reg_key"}
                /\ pc' # "killed" /\ res' <= 0) =>
              /\ pc' = (CASE pc = "plain_reg_ev" -> "plain_reg_abs"
                          [] pc = "plain_reg_abs" -> "plain_reg_key"
                          [] OTHER -> "plain_desc")
              /\ exit_status' = Running
              /\ uinput' = uinput
         /\ (pc \in {"copy_abs", "plain_desc"} /\ pc' = "exited") =>
              /\ exit_status' = EXIT_FAILURE
              /\ uinput.ndesc = 0 /\ uinput.ncreate = 0
              /\ uinput' = uinput
         /\ (pc = "copy_abs" /\ pc' = "copy_abs") =>
              /\ idx' > idx
              /\ BitIsSet(have_abs, (idx' - 1) \div 8, (idx' - 1) % 8)
              /\ uidev'.absmin[idx' - 1] = source.absinfo[idx' - 1].minimum
              /\ uidev'.absmax[idx' - 1] = source.absinfo[idx' - 1].maximum
              /\ uidev'.absfuzz[idx' - 1] = source.absinfo[idx' - 1].fuzz
              /\ uidev'.absflat[idx' - 1] = source.absinfo[idx' - 1].flat
         /\ (pc = "plain_desc" /\ pc' = "plain_write_desc") =>
              \A a \in PlainAxes :
                /\ uidev'.absmin[a] = source.absinfo[a].minimum
                /\ uidev'.absmax[a] = source.absinfo[a].maximum
                /\ uidev'.absfuzz[a] = source.absinfo[a].fuzz
                /\ uidev'.absflat[a] = source.absinfo[a].flat ]_vars

C31_Witness ==
  /\ variant = "minrelay"
  /\ uinput.ncreate = 1 /\ uinput.ndesc = 1
  /\ reported.ev = {} /\ reported.key = {} /\ reported.abs = source.abs
  /\ uinput.evbit = {} /\ uinput.keybit = {}
  /\ uinput.absbit = {1, 8 * NBV_EV}
  /\ uinput.dev.absmax[1] = source.absinfo[1].maximum

====
